---- MODULE Spec2Model ----
(***************************************************************************)
(* Model of the sleep aggregator of the sleep app (fetchLast7DaysSleep and  *)
(* the callback it hands to AppleHealthKit.getSleepSamples) and of the      *)
(* screen that shows, syncs and logs nights (MySleepScreen).                *)
(*                                                                         *)
(* Time.  A Date is modelled by its instant in milliseconds, measured from *)
(* the local midnight that starts BaseDate.  The zone of the device keeps  *)
(* daylight-saving time: its clocks go from 02:00 to 03:00 on              *)
(* SpringForwardDate (as in America/Los_Angeles), so that day has 23 hours *)
(* and the local fields of a Date depend on the side of the transition its *)
(* instant is on.                                                          *)
(* A "YYYY-MM-DD" string is modelled by the triple <<year, month, day>>    *)
(* of its zero-padded fields.                                              *)
(* A JavaScript Set is modelled by the sequence of its elements in         *)
(* insertion order, a Map by the sequence of its entries in insertion      *)
(* order.  The Map objects that the callbacks make with new Map() live on  *)
(* one heap, in the order they were made; a callback holds each of its     *)
(* maps by reference, the place of the object on the heap.                 *)
(***************************************************************************)
EXTENDS Integers, Sequences, FiniteSets, TLC

VARIABLES
    promise,          \* state of the promise of the current call
    results,          \* the HealthValue[] handed to the callback
    sleepMinutesMap,  \* Map<dateKey, Set<minute>>: any sleep stage
    remMinutesMap,    \* Map<dateKey, Set<minute>>: REM
    deepMinutesMap,   \* Map<dateKey, Set<minute>>: deep
    coreMinutesMap,   \* Map<dateKey, Set<minute>>: core
    resolved,         \* the AggregatedSleep[] the promise resolved with
    hasFirst,         \* history: an earlier run has been recorded
    firstBatch,       \* history: the batch of the recorded run
    firstResolved,    \* history: what the recorded run resolved with
    otherSince,       \* history: a run on another batch followed the recorded run
    calls,            \* the calls of fetchLast7DaysSleep that overlap, oldest first
    heap,             \* every Map made by a callback, in the order they were made
    nights,           \* MySleepScreen: the SleepNight[] of the last load
    loading,          \* MySleepScreen: the state loading
    loads,            \* MySleepScreen: the calls of load() by the mount effect or
                      \* by onRefresh that await the answer of apiGet
    error,            \* MySleepScreen: the message of the last failed load, or Null
    heroCard,         \* what renderHeroCard shows for the current nights
    historyRows,      \* what renderHistoryItem shows for each of the nights
    posts,            \* the POST /sleep/upload requests handed to fetch, oldest first
    fakeModalVisible, \* manual log: the Log Session modal is open
    fakeTotalHours,   \* manual log: the text of each of the six fields
    fakeTotalMinutes,
    fakeRemHours,
    fakeRemMinutes,
    fakeDeepHours,
    fakeDeepMinutes,
    fakeError,        \* manual log: the validation message, or Null
    manualDate,       \* manual log: the selected day, in days from today
    sending,          \* manual log: sendFakeNight is in progress
    sends,            \* manual log: the calls of sendFakeNight, oldest first
    platformOS,       \* Platform.OS
    healthDisclosureVisible, \* health sync: the privacy disclosure is open
    syncing,          \* health sync: a run of performHealthSync is in progress
    syncRuns,         \* health sync: the runs of performHealthSync, oldest first
    alert             \* the last Alert.alert shown

oneCallVars ==
    <<promise, results, sleepMinutesMap, remMinutesMap, deepMinutesMap,
      coreMinutesMap, resolved, hasFirst, firstBatch, firstResolved, otherSince>>

aggregatorVars == <<oneCallVars, calls, heap>>

displayVars == <<nights, loading, loads, error, heroCard, historyRows>>

fakeFields ==
    <<fakeTotalHours, fakeTotalMinutes, fakeRemHours, fakeRemMinutes,
      fakeDeepHours, fakeDeepMinutes>>

manualVars ==
    <<fakeModalVisible, fakeFields, fakeError, manualDate, sending, sends>>

syncVars == <<platformOS, healthDisclosureVisible, syncing, syncRuns, alert>>

screenVars == <<displayVars, posts, manualVars, syncVars>>

vars == <<aggregatorVars, screenVars>>

----------------------------------------------------------------------------
(* Units of time *)

MsPerSecond == 1000
MsPerMinute == 60000
MsPerHour == 3600000
DayMs == 24 * 60 * 60 * 1000

\* Hour of day from which a sample belongs to the next day's session.
SessionCutoffHour == 14

\* A date needs this many distinct asleep minutes to be reported.
MinNightMinutes == 15

----------------------------------------------------------------------------
(* Calendar: what Date gives for the local fields of an instant, and what  *)
(* Date gives for the instant of a "YYYY-MM-DD" string.                    *)

\* The local date on which instant 0 falls.
BaseDate == <<2024, 2, 28>>

IsLeapYear(y) == (y % 4 = 0 /\ y % 100 # 0) \/ y % 400 = 0

DaysInMonth(y, m) ==
    IF m = 2 THEN (IF IsLeapYear(y) THEN 29 ELSE 28)
    ELSE IF m \in {4, 6, 9, 11} THEN 30 ELSE 31

NextDay(d) ==
    IF d[3] < DaysInMonth(d[1], d[2]) THEN <<d[1], d[2], d[3] + 1>>
    ELSE IF d[2] < 12 THEN <<d[1], d[2] + 1, 1>>
    ELSE <<d[1] + 1, 1, 1>>

RECURSIVE AddDays(_, _)
AddDays(d, n) == IF n = 0 THEN d ELSE AddDays(NextDay(d), n - 1)

RECURSIVE DaysBeforeMonth(_, _)
DaysBeforeMonth(y, m) ==
    IF m = 1 THEN 0 ELSE DaysBeforeMonth(y, m - 1) + DaysInMonth(y, m - 1)

\* new Date("YYYY-MM-DD").getTime(), in days since 1970-01-01 (the string is
\* read as UTC midnight, so the milliseconds are a whole number of days).
DateParseDays(d) ==
    365 * (d[1] - 1970) + ((d[1] - 1969) \div 4) - ((d[1] - 1901) \div 100)
      + ((d[1] - 1601) \div 400) + DaysBeforeMonth(d[1], d[2]) + d[3] - 1

\* The local date on which the clocks of the zone go forward, and the
\* instant at which they do: 02:00 of that date, which the clocks show as
\* 03:00.
SpringForwardDate == <<2024, 3, 10>>

SpringForward ==
    (DateParseDays(SpringForwardDate) - DateParseDays(BaseDate)) * DayMs
      + 2 * MsPerHour

\* The local time of an instant: the milliseconds the clocks of the zone
\* have counted since the midnight that starts BaseDate, an hour more than
\* have passed once the clocks have gone forward.
LocalTime(t) == IF t >= SpringForward THEN t + MsPerHour ELSE t

\* date.getHours()
getHours(t) == (LocalTime(t) % DayMs) \div MsPerHour

\* getLocalDateString(date): getFullYear(), getMonth() + 1, getDate()
getLocalDateString(t) == AddDays(BaseDate, LocalTime(t) \div DayMs)

----------------------------------------------------------------------------
(* Strings: a string is the sequence of its characters. *)

UpperOf ==
    [c \in {"a", "b", "c", "d", "e", "f", "g", "h", "i", "j", "k", "l", "m",
            "n", "o", "p", "q", "r", "s", "t", "u", "v", "w", "x", "y", "z"} |->
        CASE c = "a" -> "A" [] c = "b" -> "B" [] c = "c" -> "C" [] c = "d" -> "D"
          [] c = "e" -> "E" [] c = "f" -> "F" [] c = "g" -> "G" [] c = "h" -> "H"
          [] c = "i" -> "I" [] c = "j" -> "J" [] c = "k" -> "K" [] c = "l" -> "L"
          [] c = "m" -> "M" [] c = "n" -> "N" [] c = "o" -> "O" [] c = "p" -> "P"
          [] c = "q" -> "Q" [] c = "r" -> "R" [] c = "s" -> "S" [] c = "t" -> "T"
          [] c = "u" -> "U" [] c = "v" -> "V" [] c = "w" -> "W" [] c = "x" -> "X"
          [] c = "y" -> "Y" [] c = "z" -> "Z"]

\* A character outside ASCII is written U+ and the hexadecimal digits, four
\* or more, of its code point.
HexCapitals ==
    <<"0", "1", "2", "3", "4", "5", "6", "7", "8", "9", "A", "B", "C", "D",
      "E", "F">>

Capitals ==
    <<"A", "B", "C", "D", "E", "F", "G", "H", "I", "J", "K", "L", "M", "N",
      "O", "P", "Q", "R", "S", "T", "U", "V", "W", "X", "Y", "Z">>

IsCodePoint(c) == Len(c) > 1 /\ SubSeq(c, 1, 2) = "U+"

\* The number that the first n characters of c after U+ write.
RECURSIVE CodePointOf(_, _)
CodePointOf(c, n) ==
    IF n = 0 THEN 0
    ELSE 16 * CodePointOf(c, n - 1)
           + (CHOOSE d \in DOMAIN HexCapitals :
                 HexCapitals[d] = SubSeq(c, n + 2, n + 2)) - 1

\* The hexadecimal digits of a code point, n of them at least.
RECURSIVE HexOf(_, _)
HexOf(code, n) ==
    IF code = 0 /\ n <= 0 THEN ""
    ELSE HexOf(code \div 16, n - 1) \o HexCapitals[(code % 16) + 1]

\* The character of a code point: a capital of ASCII or a character outside
\* ASCII.
CharOf(code) ==
    IF code \in 65..90 THEN Capitals[code - 64] ELSE "U+" \o HexOf(code, 4)

\* The characters outside ASCII with a capital of one character (the simple
\* upper-case mappings of the Unicode Character Database, version 17.0):
\* <<first, last, step, delta>> maps first, first + step, ... up to last to
\* the character delta code points on.
UpperRuns ==
  << <<181, 181, 1, 743>>, <<224, 246, 1, -32>>, <<248, 254, 1, -32>>,
    <<255, 255, 1, 121>>, <<257, 303, 2, -1>>, <<305, 305, 1, -232>>,
    <<307, 311, 2, -1>>, <<314, 328, 2, -1>>, <<331, 375, 2, -1>>,
    <<378, 382, 2, -1>>, <<383, 383, 1, -300>>, <<384, 384, 1, 195>>,
    <<387, 389, 2, -1>>, <<392, 392, 1, -1>>, <<396, 396, 1, -1>>,
    <<402, 402, 1, -1>>, <<405, 405, 1, 97>>, <<409, 409, 1, -1>>,
    <<410, 410, 1, 163>>, <<411, 411, 1, 42561>>, <<414, 414, 1, 130>>, <<417, 421, 2, -1>>,
    <<424, 424, 1, -1>>, <<429, 429, 1, -1>>, <<432, 432, 1, -1>>,
    <<436, 438, 2, -1>>, <<441, 441, 1, -1>>, <<445, 445, 1, -1>>,
    <<447, 447, 1, 56>>, <<453, 453, 1, -1>>, <<454, 454, 1, -2>>,
    <<456, 456, 1, -1>>, <<457, 457, 1, -2>>, <<459, 459, 1, -1>>,
    <<460, 460, 1, -2>>, <<462, 476, 2, -1>>, <<477, 477, 1, -79>>,
    <<479, 495, 2, -1>>, <<498, 498, 1, -1>>, <<499, 499, 1, -2>>,
    <<501, 501, 1, -1>>, <<505, 543, 2, -1>>, <<547, 563, 2, -1>>,
    <<572, 572, 1, -1>>, <<575, 576, 1, 10815>>, <<578, 578, 1, -1>>,
    <<583, 591, 2, -1>>, <<592, 592, 1, 10783>>, <<593, 593, 1, 10780>>,
    <<594, 594, 1, 10782>>, <<595, 595, 1, -210>>, <<596, 596, 1, -206>>,
    <<598, 599, 1, -205>>, <<601, 601, 1, -202>>, <<603, 603, 1, -203>>,
    <<604, 604, 1, 42319>>, <<608, 608, 1, -205>>, <<609, 609, 1, 42315>>,
    <<611, 611, 1, -207>>, <<612, 612, 1, 42343>>,
    <<613, 613, 1, 42280>>, <<614, 614, 1, 42308>>,
    <<616, 616, 1, -209>>, <<617, 617, 1, -211>>, <<618, 618, 1, 42308>>,
    <<619, 619, 1, 10743>>, <<620, 620, 1, 42305>>, <<623, 623, 1, -211>>,
    <<625, 625, 1, 10749>>, <<626, 626, 1, -213>>, <<629, 629, 1, -214>>,
    <<637, 637, 1, 10727>>, <<640, 640, 1, -218>>, <<642, 642, 1, 42307>>,
    <<643, 643, 1, -218>>, <<647, 647, 1, 42282>>, <<648, 648, 1, -218>>,
    <<649, 649, 1, -69>>, <<650, 651, 1, -217>>, <<652, 652, 1, -71>>,
    <<658, 658, 1, -219>>, <<669, 669, 1, 42261>>, <<670, 670, 1, 42258>>,
    <<837, 837, 1, 84>>, <<881, 883, 2, -1>>, <<887, 887, 1, -1>>,
    <<891, 893, 1, 130>>, <<940, 940, 1, -38>>, <<941, 943, 1, -37>>,
    <<945, 961, 1, -32>>, <<962, 962, 1, -31>>, <<963, 971, 1, -32>>,
    <<972, 972, 1, -64>>, <<973, 974, 1, -63>>, <<976, 976, 1, -62>>,
    <<977, 977, 1, -57>>, <<981, 981, 1, -47>>, <<982, 982, 1, -54>>,
    <<983, 983, 1, -8>>, <<985, 1007, 2, -1>>, <<1008, 1008, 1, -86>>,
    <<1009, 1009, 1, -80>>, <<1010, 1010, 1, 7>>, <<1011, 1011, 1, -116>>,
    <<1013, 1013, 1, -96>>, <<1016, 1016, 1, -1>>, <<1019, 1019, 1, -1>>,
    <<1072, 1103, 1, -32>>, <<1104, 1119, 1, -80>>, <<1121, 1153, 2, -1>>,
    <<1163, 1215, 2, -1>>, <<1218, 1230, 2, -1>>, <<1231, 1231, 1, -15>>,
    <<1233, 1327, 2, -1>>, <<1377, 1414, 1, -48>>, <<4304, 4346, 1, 3008>>,
    <<4349, 4351, 1, 3008>>, <<5112, 5117, 1, -8>>,
    <<7296, 7296, 1, -6254>>, <<7297, 7297, 1, -6253>>,
    <<7298, 7298, 1, -6244>>, <<7299, 7300, 1, -6242>>,
    <<7301, 7301, 1, -6243>>, <<7302, 7302, 1, -6236>>,
    <<7303, 7303, 1, -6181>>, <<7304, 7304, 1, 35266>>, <<7306, 7306, 1, -1>>,
    <<7545, 7545, 1, 35332>>, <<7549, 7549, 1, 3814>>,
    <<7566, 7566, 1, 35384>>, <<7681, 7829, 2, -1>>,
    <<7835, 7835, 1, -59>>, <<7841, 7935, 2, -1>>, <<7936, 7943, 1, 8>>,
    <<7952, 7957, 1, 8>>, <<7968, 7975, 1, 8>>, <<7984, 7991, 1, 8>>,
    <<8000, 8005, 1, 8>>, <<8017, 8023, 2, 8>>, <<8032, 8039, 1, 8>>,
    <<8048, 8049, 1, 74>>, <<8050, 8053, 1, 86>>, <<8054, 8055, 1, 100>>,
    <<8056, 8057, 1, 128>>, <<8058, 8059, 1, 112>>, <<8060, 8061, 1, 126>>,
    <<8112, 8113, 1, 8>>, <<8126, 8126, 1, -7205>>, <<8144, 8145, 1, 8>>,
    <<8160, 8161, 1, 8>>, <<8165, 8165, 1, 7>>, <<8526, 8526, 1, -28>>,
    <<8560, 8575, 1, -16>>, <<8580, 8580, 1, -1>>, <<9424, 9449, 1, -26>>,
    <<11312, 11359, 1, -48>>, <<11361, 11361, 1, -1>>,
    <<11365, 11365, 1, -10795>>, <<11366, 11366, 1, -10792>>,
    <<11368, 11372, 2, -1>>, <<11379, 11379, 1, -1>>,
    <<11382, 11382, 1, -1>>, <<11393, 11491, 2, -1>>,
    <<11500, 11502, 2, -1>>, <<11507, 11507, 1, -1>>,
    <<11520, 11557, 1, -7264>>, <<11559, 11559, 1, -7264>>,
    <<11565, 11565, 1, -7264>>, <<42561, 42605, 2, -1>>,
    <<42625, 42651, 2, -1>>, <<42787, 42799, 2, -1>>,
    <<42803, 42863, 2, -1>>, <<42874, 42876, 2, -1>>,
    <<42879, 42887, 2, -1>>, <<42892, 42892, 1, -1>>,
    <<42897, 42899, 2, -1>>, <<42900, 42900, 1, 48>>,
    <<42903, 42921, 2, -1>>, <<42933, 42947, 2, -1>>,
    <<42952, 42954, 2, -1>>, <<42957, 42959, 2, -1>>,
    <<42961, 42971, 2, -1>>, <<42998, 42998, 1, -1>>,
    <<43859, 43859, 1, -928>>, <<43888, 43967, 1, -38864>>,
    <<65345, 65370, 1, -32>>, <<66600, 66639, 1, -40>>,
    <<66776, 66811, 1, -40>>, <<66967, 67003, 2, -39>>,
    <<66968, 66976, 2, -39>>, <<66980, 66992, 2, -39>>,
    <<66996, 67000, 2, -39>>, <<67004, 67004, 1, -39>>,
    <<68800, 68850, 1, -64>>, <<68976, 68997, 1, -32>>, <<71872, 71903, 1, -32>>,
    <<93792, 93823, 1, -32>>, <<93883, 93907, 1, -27>>, <<125218, 125251, 1, -34>> >>

\* The characters whose capital is more than one character (the
\* unconditional upper-case mappings of SpecialCasing.txt): the code point
\* and the code points of its capital.
SpecialUpper ==
  << <<223, <<83, 83>> >>, <<329, <<700, 78>> >>, <<496, <<74, 780>> >>,
    <<912, <<921, 776, 769>> >>, <<944, <<933, 776, 769>> >>,
    <<1415, <<1333, 1362>> >>, <<7830, <<72, 817>> >>, <<7831, <<84, 776>> >>,
    <<7832, <<87, 778>> >>, <<7833, <<89, 778>> >>, <<7834, <<65, 702>> >>,
    <<8016, <<933, 787>> >>, <<8018, <<933, 787, 768>> >>,
    <<8020, <<933, 787, 769>> >>, <<8022, <<933, 787, 834>> >>,
    <<8064, <<7944, 921>> >>, <<8065, <<7945, 921>> >>,
    <<8066, <<7946, 921>> >>, <<8067, <<7947, 921>> >>,
    <<8068, <<7948, 921>> >>, <<8069, <<7949, 921>> >>,
    <<8070, <<7950, 921>> >>, <<8071, <<7951, 921>> >>,
    <<8072, <<7944, 921>> >>, <<8073, <<7945, 921>> >>,
    <<8074, <<7946, 921>> >>, <<8075, <<7947, 921>> >>,
    <<8076, <<7948, 921>> >>, <<8077, <<7949, 921>> >>,
    <<8078, <<7950, 921>> >>, <<8079, <<7951, 921>> >>,
    <<8080, <<7976, 921>> >>, <<8081, <<7977, 921>> >>,
    <<8082, <<7978, 921>> >>, <<8083, <<7979, 921>> >>,
    <<8084, <<7980, 921>> >>, <<8085, <<7981, 921>> >>,
    <<8086, <<7982, 921>> >>, <<8087, <<7983, 921>> >>,
    <<8088, <<7976, 921>> >>, <<8089, <<7977, 921>> >>,
    <<8090, <<7978, 921>> >>, <<8091, <<7979, 921>> >>,
    <<8092, <<7980, 921>> >>, <<8093, <<7981, 921>> >>,
    <<8094, <<7982, 921>> >>, <<8095, <<7983, 921>> >>,
    <<8096, <<8040, 921>> >>, <<8097, <<8041, 921>> >>,
    <<8098, <<8042, 921>> >>, <<8099, <<8043, 921>> >>,
    <<8100, <<8044, 921>> >>, <<8101, <<8045, 921>> >>,
    <<8102, <<8046, 921>> >>, <<8103, <<8047, 921>> >>,
    <<8104, <<8040, 921>> >>, <<8105, <<8041, 921>> >>,
    <<8106, <<8042, 921>> >>, <<8107, <<8043, 921>> >>,
    <<8108, <<8044, 921>> >>, <<8109, <<8045, 921>> >>,
    <<8110, <<8046, 921>> >>, <<8111, <<8047, 921>> >>,
    <<8114, <<8122, 921>> >>, <<8115, <<913, 921>> >>,
    <<8116, <<902, 921>> >>, <<8118, <<913, 834>> >>,
    <<8119, <<913, 834, 921>> >>, <<8124, <<913, 921>> >>,
    <<8130, <<8138, 921>> >>, <<8131, <<919, 921>> >>,
    <<8132, <<905, 921>> >>, <<8134, <<919, 834>> >>,
    <<8135, <<919, 834, 921>> >>, <<8140, <<919, 921>> >>,
    <<8146, <<921, 776, 768>> >>, <<8147, <<921, 776, 769>> >>,
    <<8150, <<921, 834>> >>, <<8151, <<921, 776, 834>> >>,
    <<8162, <<933, 776, 768>> >>, <<8163, <<933, 776, 769>> >>,
    <<8164, <<929, 787>> >>, <<8166, <<933, 834>> >>,
    <<8167, <<933, 776, 834>> >>, <<8178, <<8186, 921>> >>,
    <<8179, <<937, 921>> >>, <<8180, <<911, 921>> >>, <<8182, <<937, 834>> >>,
    <<8183, <<937, 834, 921>> >>, <<8188, <<937, 921>> >>,
    <<64256, <<70, 70>> >>, <<64257, <<70, 73>> >>, <<64258, <<70, 76>> >>,
    <<64259, <<70, 70, 73>> >>, <<64260, <<70, 70, 76>> >>,
    <<64261, <<83, 84>> >>, <<64262, <<83, 84>> >>,
    <<64275, <<1348, 1350>> >>, <<64276, <<1348, 1333>> >>,
    <<64277, <<1348, 1339>> >>, <<64278, <<1358, 1350>> >>,
    <<64279, <<1348, 1341>> >> >>

\* The capital of a character, as the sequence of its characters; a
\* character without one is its own.
ToUpperChar(c) ==
    IF c \in DOMAIN UpperOf THEN <<UpperOf[c]>>
    ELSE IF ~IsCodePoint(c) THEN <<c>>
    ELSE LET code == CodePointOf(c, Len(c) - 2)
             special == {i \in DOMAIN SpecialUpper : SpecialUpper[i][1] = code}
             runs == {i \in DOMAIN UpperRuns :
                         /\ UpperRuns[i][1] <= code
                         /\ code <= UpperRuns[i][2]
                         /\ (code - UpperRuns[i][1]) % UpperRuns[i][3] = 0}
         IN  IF special # {}
             THEN LET capital == SpecialUpper[CHOOSE i \in special : TRUE][2]
                  IN  [k \in DOMAIN capital |-> CharOf(capital[k])]
             ELSE IF runs # {}
                  THEN <<CharOf(code + UpperRuns[CHOOSE i \in runs : TRUE][4])>>
             ELSE <<c>>

\* s.toUpperCase()
RECURSIVE toUpperCase(_)
toUpperCase(s) ==
    IF s = <<>> THEN <<>> ELSE ToUpperChar(s[1]) \o toUpperCase(Tail(s))

Digits == <<"0", "1", "2", "3", "4", "5", "6", "7", "8", "9">>

\* message.includes(part), of two texts.
Includes(message, part) ==
    \E i \in 1..(Len(message) - Len(part) + 1) :
        SubSeq(message, i, i + Len(part) - 1) = part

\* A HealthValue's value: a string, a number 0..9, or absent.
StrValue(chars) == [type |-> "string", chars |-> chars, n |-> 0]
NumValue(n) == [type |-> "number", chars |-> <<>>, n |-> n]
UndefinedValue == [type |-> "undefined", chars |-> <<>>, n |-> 0]

\* String(value)
String(v) ==
    IF v.type = "string" THEN v.chars
    ELSE IF v.type = "number" THEN <<Digits[v.n + 1]>>
    ELSE <<"u", "n", "d", "e", "f", "i", "n", "e", "d">>

----------------------------------------------------------------------------
(* Set<number> and Map<string, Set<number>> *)

SetHas(s, x) == \E i \in DOMAIN s : s[i] = x

\* set.add(x), for each x of a sequence in turn: an element the set already
\* has, or that was added earlier in the sequence, is not added again.
SetAddAllDuplicating(s, xs) == s \o xs

SetAddAll(s, xs) ==
    LET had == {s[i] : i \in DOMAIN s}
        added == SelectSeq([i \in DOMAIN xs |-> [at |-> i, x |-> xs[i]]],
                           LAMBDA e : /\ e.x \notin had
                                      /\ \A j \in 1..(e.at - 1) : xs[j] # e.x)
    IN  s \o [i \in DOMAIN added |-> added[i].x]

\* set.size
SetSize(s) == Len(s)

\* new Map()
NewMap == <<>>

\* map.has(key)
MapHas(m, k) == \E i \in DOMAIN m : m[i].key = k

\* map.set(key, new Set()) for a key the map does not have
MapSetNew(m, k) == Append(m, [key |-> k, set |-> <<>>])

\* map.get(key)?.add(x), for each x of a sequence in turn
MapAddAll(m, k, xs) ==
    IF MapHas(m, k)
    THEN [m EXCEPT ![CHOOSE i \in DOMAIN m : m[i].key = k].set = SetAddAll(@, xs)]
    ELSE m

\* map.get(key)?.size || 0
MapSizeOf(m, k) ==
    IF MapHas(m, k)
    THEN SetSize(m[CHOOSE i \in DOMAIN m : m[i].key = k].set)
    ELSE 0

----------------------------------------------------------------------------
(* The body of results.forEach *)

isRemOnlyName(val) == val = <<"R", "E", "M">>

isRem(val) ==
    \/ val = <<"R", "E", "M">>
    \/ val = <<"A", "S", "L", "E", "E", "P", "_", "R", "E", "M">>
    \/ val = <<"5">>

isDeep(val) ==
    \/ val = <<"D", "E", "E", "P">>
    \/ val = <<"A", "S", "L", "E", "E", "P", "_", "D", "E", "E", "P">>
    \/ val = <<"4">>

isCore(val) ==
    \/ val = <<"C", "O", "R", "E">>
    \/ val = <<"A", "S", "L", "E", "E", "P", "_", "C", "O", "R", "E">>
    \/ val = <<"3">>

isGenericAsleep(val) ==
    \/ val = <<"A", "S", "L", "E", "E", "P">>
    \/ val = <<"1">>

\* The date a sample is grouped under, from its end: the local date of end,
\* or of the instant 24 hours after end, which is on the next calendar day
\* but for an end in the last hour of the eve of SpringForwardDate, whose
\* 24 hours on is past the 23 hours of that day.
SessionDateKey(end) ==
    IF getHours(end) >= SessionCutoffHour
    THEN getLocalDateString(end + DayMs)
    ELSE getLocalDateString(end)

\* const dateKey = getLocalDateString(sessionDate), sessionDate from end
SampleDateKeyFromStart(sample) == SessionDateKey(sample.startDate)

SampleDateKey(sample) == SessionDateKey(sample.endDate)

\* "Prepare Sets"
PrepareSet(m, k) == IF MapHas(m, k) THEN m ELSE MapSetNew(m, k)

PrepareSets(maps, k) ==
    [sleep |-> PrepareSet(maps.sleep, k), rem |-> PrepareSet(maps.rem, k),
     deep |-> PrepareSet(maps.deep, k), core |-> PrepareSet(maps.core, k)]

\* for (let t = startMs; t < endMs; t += 60000): the number of passes, and
\* Math.floor(t / 60000) of each pass in turn.
LoopCountWholeMinutes(startMs, endMs) ==
    IF startMs < endMs THEN (endMs - startMs) \div MsPerMinute ELSE 0

LoopCountInclusive(startMs, endMs) ==
    IF startMs <= endMs THEN ((endMs - startMs) \div MsPerMinute) + 1 ELSE 0

LoopCount(startMs, endMs) ==
    IF startMs < endMs THEN ((endMs - startMs - 1) \div MsPerMinute) + 1 ELSE 0

\* The minute-aligned timestamps from floor(start / 60 s) on that are below
\* end.
LoopMinutesFromFloor(startMs, endMs) ==
    [k \in 1..(IF startMs < endMs
               THEN ((endMs - 1) \div MsPerMinute) - (startMs \div MsPerMinute) + 1
               ELSE 0) |->
        (startMs \div MsPerMinute) + (k - 1)]

LoopMinutes(startMs, endMs) ==
    [k \in 1..LoopCount(startMs, endMs) |->
        (startMs + (k - 1) * MsPerMinute) \div MsPerMinute]

\* One sample: its date, its sets, and the adds of the loop.  The four sets
\* are separate objects, so the adds of all passes are made set by set.
ProcessSampleDeepOutsideTotal(maps, sample) ==
    LET dateKey == SampleDateKey(sample)
        val == toUpperCase(String(sample.value))
        prepared == PrepareSets(maps, dateKey)
        minutes == LoopMinutes(sample.startDate, sample.endDate)
    IN  [sleep |-> IF isRem(val) \/ isCore(val) \/ isGenericAsleep(val)
                   THEN MapAddAll(prepared.sleep, dateKey, minutes)
                   ELSE prepared.sleep,
         rem |-> IF isRem(val) THEN MapAddAll(prepared.rem, dateKey, minutes)
                 ELSE prepared.rem,
         deep |-> IF isDeep(val) THEN MapAddAll(prepared.deep, dateKey, minutes)
                  ELSE prepared.deep,
         core |-> IF isCore(val) THEN MapAddAll(prepared.core, dateKey, minutes)
                  ELSE prepared.core]

ProcessSample(maps, sample) ==
    LET dateKey == SampleDateKey(sample)
        val == toUpperCase(String(sample.value))
        prepared == PrepareSets(maps, dateKey)
        minutes == LoopMinutes(sample.startDate, sample.endDate)
    IN  [sleep |-> IF isRem(val) \/ isDeep(val) \/ isCore(val)
                      \/ isGenericAsleep(val)
                   THEN MapAddAll(prepared.sleep, dateKey, minutes)
                   ELSE prepared.sleep,
         rem |-> IF isRem(val) THEN MapAddAll(prepared.rem, dateKey, minutes)
                 ELSE prepared.rem,
         deep |-> IF isDeep(val) THEN MapAddAll(prepared.deep, dateKey, minutes)
                  ELSE prepared.deep,
         core |-> IF isCore(val) THEN MapAddAll(prepared.core, dateKey, minutes)
                  ELSE prepared.core]

RECURSIVE ForEachSample(_, _, _)
ForEachSample(maps, batch, i) ==
    IF i > Len(batch) THEN maps
    ELSE ForEachSample(ProcessSample(maps, batch[i]), batch, i + 1)

----------------------------------------------------------------------------
(* sleepMinutesMap.forEach and the final sort *)

NightOf(maps, entry) ==
    [date |-> entry.key,
     totalMinutes |-> SetSize(entry.set),
     remMinutes |-> MapSizeOf(maps.rem, entry.key),
     deepMinutes |-> MapSizeOf(maps.deep, entry.key),
     coreMinutes |-> MapSizeOf(maps.core, entry.key)]

\* if (timestampSet.size < 15) return;
BelowFloorLoose(entry) == SetSize(entry.set) < MinNightMinutes - 1

BelowFloor(entry) == SetSize(entry.set) < MinNightMinutes

BuildFinalResults(maps) ==
    LET kept == SelectSeq(maps.sleep, LAMBDA entry : ~BelowFloor(entry))
    IN  [i \in DOMAIN kept |-> NightOf(maps, kept[i])]

\* (a, b) => new Date(b.date).getTime() - new Date(a.date).getTime()
CompareNightsAscending(a, b) == DateParseDays(a.date) - DateParseDays(b.date)

CompareNightsAllEqual(a, b) == 0

CompareNights(a, b) == DateParseDays(b.date) - DateParseDays(a.date)

\* Array.prototype.sort: stable, a goes before b unless compare(a, b) > 0.
RECURSIVE InsertSorted(_, _)
InsertSorted(sorted, x) ==
    IF sorted = <<>> THEN <<x>>
    ELSE IF CompareNights(Head(sorted), x) > 0
         THEN <<x>> \o sorted
         ELSE <<Head(sorted)>> \o InsertSorted(Tail(sorted), x)

RECURSIVE SortByInsertion(_, _)
SortByInsertion(list, i) ==
    IF i = 0 THEN <<>>
    ELSE InsertSorted(SortByInsertion(list, i - 1), list[i])

SortFinalResults(list) == SortByInsertion(list, Len(list))

\* const sleepMinutesMap = new Map(); const remMinutesMap = new Map(); const
\* deepMinutesMap = new Map(); const coreMinutesMap = new Map(): the heap
\* with the four new objects, and the references the four names are bound
\* to.
WithNewMaps(h) == h \o <<NewMap, NewMap, NewMap, NewMap>>

FirstMapRefs(h) == [sleep |-> 1, rem |-> 2, deep |-> 3, core |-> 4]

NewMapRefs(h) ==
    [sleep |-> Len(h) + 1, rem |-> Len(h) + 2,
     deep |-> Len(h) + 3, core |-> Len(h) + 4]

\* The objects that four references lead to.
MapsAt(h, refs) ==
    [sleep |-> h[refs.sleep], rem |-> h[refs.rem],
     deep |-> h[refs.deep], core |-> h[refs.core]]

\* The heap after the sets and adds of a callback on the objects that its
\* four references lead to; every other object is as it was.
Stored(h, refs, maps) ==
    <<>> \o [k \in DOMAIN h |->
                IF k = refs.sleep THEN maps.sleep
                ELSE IF k = refs.rem THEN maps.rem
                ELSE IF k = refs.deep THEN maps.deep
                ELSE IF k = refs.core THEN maps.core
                ELSE h[k]]

\* The four maps after results.forEach of a callback that nothing else
\* runs beside, and the list it hands to resolve.
AggregateMaps(batch) ==
    ForEachSample([sleep |-> NewMap, rem |-> NewMap,
                   deep |-> NewMap, core |-> NewMap], batch, 1)

AggregateResult(batch) ==
    SortFinalResults(BuildFinalResults(AggregateMaps(batch)))

----------------------------------------------------------------------------
(* Inputs *)

MaxBatch == 2
RerunMaxBatch == 2
MaxRuns == 3

\* The instant at which the clocks of the zone show h:m:s on the day that is
\* day days after BaseDate.
At(day, h, m, s) ==
    LET shown == day * DayMs + h * MsPerHour + m * MsPerMinute + s * MsPerSecond
    IN  IF shown >= SpringForward + MsPerHour THEN shown - MsPerHour ELSE shown

\* The days, counted from BaseDate, before and of the change of the clocks.
SpringForwardEve == DateParseDays(SpringForwardDate) - DateParseDays(BaseDate) - 1

SpringForwardDay == SpringForwardEve + 1

Sample(start, end, value) == [startDate |-> start, endDate |-> end, value |-> value]

Str_REM == <<"R", "E", "M">>
Str_DEEP == <<"D", "E", "E", "P">>
Str_CORE == <<"C", "O", "R", "E">>
Str_ASLEEP == <<"A", "S", "L", "E", "E", "P">>
Str_INBED == <<"I", "N", "B", "E", "D">>
Str_AWAKE == <<"A", "W", "A", "K", "E">>
Str_asleep_rem == <<"a", "s", "l", "e", "e", "p", "_", "r", "e", "m">>
Str_Asleep_Deep == <<"A", "s", "l", "e", "e", "p", "_", "D", "e", "e", "p">>
Str_ASLEEP_CORE == <<"A", "S", "L", "E", "E", "P", "_", "C", "O", "R", "E">>
Str_asleep == <<"a", "s", "l", "e", "e", "p">>
Str_UNKNOWN_FUTURE_CODE ==
    <<"U", "N", "K", "N", "O", "W", "N", "_", "F", "U", "T", "U", "R", "E",
      "_", "C", "O", "D", "E">>

\* Instants are taken on three consecutive local days, day 1 being
\* BaseDate + 1, and on the eve and the day of the change of the clocks.
Pool ==
    { Sample(At(1, 1, 0, 0), At(1, 1, 20, 0), StrValue(Str_REM)),
      Sample(At(1, 1, 0, 0), At(1, 1, 20, 0), StrValue(Str_DEEP)),
      Sample(At(1, 1, 10, 0), At(1, 1, 30, 0), StrValue(Str_Asleep_Deep)),
      Sample(At(1, 10, 0, 0), At(1, 10, 5, 0), StrValue(Str_DEEP)),
      Sample(At(1, 2, 0, 0), At(1, 2, 14, 0), StrValue(Str_CORE)),
      Sample(At(1, 2, 14, 0), At(1, 2, 15, 0), NumValue(3)),
      Sample(At(1, 7, 40, 0), At(1, 8, 0, 0), StrValue(Str_ASLEEP)),
      Sample(At(1, 13, 39, 0), At(1, 13, 59, 0), StrValue(Str_asleep_rem)),
      Sample(At(1, 13, 40, 0), At(1, 14, 0, 0), NumValue(5)),
      Sample(At(1, 13, 50, 0), At(1, 14, 10, 0), NumValue(4)),
      Sample(At(1, 23, 10, 0), At(1, 23, 30, 0), StrValue(Str_ASLEEP_CORE)),
      Sample(At(1, 23, 50, 0), At(2, 0, 10, 0), StrValue(Str_REM)),
      Sample(At(2, 6, 0, 0), At(2, 6, 30, 0), StrValue(Str_DEEP)),
      Sample(At(2, 6, 30, 0), At(2, 7, 0, 0), StrValue(Str_CORE)),
      Sample(At(0, 5, 0, 0), At(0, 5, 15, 0), NumValue(1)),
      Sample(At(1, 1, 19, 30), At(1, 1, 21, 0), StrValue(Str_asleep)),
      Sample(At(1, 1, 0, 0), At(1, 1, 20, 0), StrValue(Str_INBED)),
      Sample(At(1, 1, 0, 0), At(1, 1, 20, 0), StrValue(Str_AWAKE)),
      Sample(At(1, 1, 0, 0), At(1, 1, 20, 0), StrValue(Str_UNKNOWN_FUTURE_CODE)),
      Sample(At(1, 1, 0, 0), At(1, 1, 20, 0), UndefinedValue),
      Sample(At(1, 1, 0, 0), At(1, 1, 0, 0), StrValue(Str_REM)),
      Sample(At(SpringForwardEve, 23, 10, 0), At(SpringForwardEve, 23, 30, 0),
             StrValue(Str_CORE)),
      Sample(At(SpringForwardEve, 13, 30, 0), At(SpringForwardEve, 13, 50, 0),
             StrValue(Str_CORE)),
      Sample(At(SpringForwardDay, 1, 30, 0), At(SpringForwardDay, 3, 20, 0),
             StrValue(Str_DEEP)) }

Batches == UNION {[1..n -> Pool] : n \in 0..MaxBatch}

\* The runs of samples, up to max of them, that follow one another in a
\* sequence of samples.
Slices(samples, max) ==
    {SubSeq(samples, i, j) : i \in 1..(Len(samples) + 1), j \in 0..Len(samples)}
      \cap UNION {[1..n -> {samples[k] : k \in DOMAIN samples}] : n \in 0..max}

\* The samples of the runs that are compared with an earlier run: two of
\* one date that share ten minutes, and one of the next date.  A batch is a
\* run of them.
RerunNight ==
    << Sample(At(1, 1, 0, 0), At(1, 1, 20, 0), StrValue(Str_REM)),
       Sample(At(1, 1, 10, 0), At(1, 1, 30, 0), StrValue(Str_Asleep_Deep)),
       Sample(At(1, 13, 40, 0), At(1, 14, 0, 0), NumValue(5)) >>

RerunPool == {RerunNight[k] : k \in DOMAIN RerunNight}

RerunBatches == Slices(RerunNight, RerunMaxBatch)

\* The samples of the end-to-end scenario (a night that starts before
\* midnight of day 1 and ends on day 2), with samples that overlap them, that
\* fall on another date, that are not aligned to a minute, and that are not
\* asleep.
MaxScenarioBatch == 3

ScenarioPool ==
    { Sample(At(1, 23, 50, 0), At(2, 0, 10, 0), StrValue(Str_REM)),
      Sample(At(2, 6, 0, 0), At(2, 6, 30, 0), StrValue(Str_DEEP)),
      Sample(At(2, 6, 30, 0), At(2, 7, 0, 0), StrValue(Str_CORE)),
      Sample(At(2, 7, 0, 0), At(2, 7, 10, 0), StrValue(Str_ASLEEP)),
      Sample(At(2, 6, 20, 0), At(2, 6, 40, 0), NumValue(5)),
      Sample(At(2, 13, 50, 0), At(2, 14, 10, 0), StrValue(Str_CORE)),
      Sample(At(2, 7, 10, 30), At(2, 7, 12, 0), StrValue(Str_asleep)),
      Sample(At(2, 5, 0, 0), At(2, 5, 30, 0), StrValue(Str_INBED)),
      Sample(At(2, 2, 0, 0), At(2, 2, 5, 0), StrValue(Str_DEEP)) }

ScenarioBatches == UNION {[1..n -> ScenarioPool] : n \in 0..MaxScenarioBatch}

\* Samples of every length up to MaxSampleSeconds, in seconds, that start at
\* every second of the minute 01:00 of day 1.
MaxSampleSeconds == 130

SecondsOfMinute == 0..59

AlignmentSamples ==
    { Sample(At(1, 1, 0, offset), At(1, 1, 0, offset + seconds), StrValue(Str_REM)) :
        offset \in SecondsOfMinute, seconds \in 1..MaxSampleSeconds }

\* The calls that overlap, and the batches their callbacks are handed: runs
\* of the samples of a night, two of one date, of different stages, that
\* share ten minutes, and one of the next date.
MaxCalls == 2
MaxCallBatch == 2

CallNight ==
    << Sample(At(1, 1, 0, 0), At(1, 1, 20, 0), StrValue(Str_REM)),
       Sample(At(1, 1, 10, 0), At(1, 1, 30, 0), StrValue(Str_Asleep_Deep)),
       Sample(At(1, 13, 45, 0), At(1, 14, 5, 0), NumValue(3)) >>

CallBatches == Slices(CallNight, MaxCallBatch)

----------------------------------------------------------------------------
(* MySleepScreen: score, rank and labels *)

Null == "null"

GOAL_MINUTES == 8 * 60

\* The totalMinutes t, for -1200 <= t <= 1200, at which t * 100 / 480 lies
\* halfway between two integers while (t / 480) * 100, evaluated with two
\* binary64 roundings, is the double just below that halfway point (at every
\* other halfway t of the range the product is the halfway point itself).
ProductBelowHalfway == {-1116, -996, -588, -132, 276, 492, 612, 1044, 1164}

\* Math.round((totalMinutes / GOAL_MINUTES) * 100): the nearest integer of
\* the binary64 product, a product halfway between two integers going up.
RoundedPercent(totalMinutes) ==
    ((2 * 100 * totalMinutes + GOAL_MINUTES) \div (2 * GOAL_MINUTES))
      - (IF totalMinutes \in ProductBelowHalfway THEN 1 ELSE 0)

calculateScoreUncapped(totalMinutes) == RoundedPercent(totalMinutes)

calculateScore(totalMinutes) ==
    LET score == RoundedPercent(totalMinutes)
    IN  IF score > 100 THEN 100 ELSE score

getRankTierExclusive(score) ==
    IF score > 100 THEN [label |-> "DIAMOND", color |-> "#22D3EE"]
    ELSE IF score > 90 THEN [label |-> "PLATINUM", color |-> "#A78BFA"]
    ELSE IF score > 75 THEN [label |-> "GOLD", color |-> "#FBBF24"]
    ELSE IF score > 50 THEN [label |-> "SILVER", color |-> "#94A3B8"]
    ELSE [label |-> "BRONZE", color |-> "#475569"]

getRankTier(score) ==
    IF score >= 100 THEN [label |-> "DIAMOND", color |-> "#22D3EE"]
    ELSE IF score >= 90 THEN [label |-> "PLATINUM", color |-> "#A78BFA"]
    ELSE IF score >= 75 THEN [label |-> "GOLD", color |-> "#FBBF24"]
    ELSE IF score >= 50 THEN [label |-> "SILVER", color |-> "#94A3B8"]
    ELSE [label |-> "BRONZE", color |-> "#475569"]

\* mins % 60 of JavaScript: the remainder has the sign of mins.
JsRemainder(mins, d) == IF mins >= 0 THEN mins % d ELSE -((-mins) % d)

\* minutesToHoursLabel(mins): `${h}h` when m is 0, `${h}h ${m}m` otherwise;
\* the label is modelled by the two numbers it prints.
minutesToHoursLabel(mins) ==
    [h |-> mins \div 60, m |-> JsRemainder(mins, 60)]

\* The number renderHeroCard hands to minutesToHoursLabel for "Light".
HeroLight(night) ==
    night.totalSleepMinutes - night.remSleepMinutes - night.deepSleepMinutes

\* const lightSleep = Math.max(0, ...) of renderHistoryItem
lightSleep(item) ==
    IF item.totalSleepMinutes - item.remSleepMinutes - item.deepSleepMinutes > 0
    THEN item.totalSleepMinutes - item.remSleepMinutes - item.deepSleepMinutes
    ELSE 0

\* renderHeroCard(): the empty card, or the card of latestNight = nights[0].
renderHeroCard(list) ==
    IF list = <<>>
    THEN [empty |-> TRUE]
    ELSE LET latestNight == list[1]
             score == calculateScore(latestNight.totalSleepMinutes)
         IN  [empty |-> FALSE,
              date |-> latestNight.date,
              rank |-> getRankTier(score),
              score |-> score,
              slept |-> minutesToHoursLabel(latestNight.totalSleepMinutes),
              rem |-> minutesToHoursLabel(latestNight.remSleepMinutes),
              deep |-> minutesToHoursLabel(latestNight.deepSleepMinutes),
              lightMinutes |-> HeroLight(latestNight),
              light |-> minutesToHoursLabel(HeroLight(latestNight))]

\* renderHistoryItem({ item })
renderHistoryItem(item) ==
    LET score == calculateScore(item.totalSleepMinutes)
    IN  [date |-> item.date,
         total |-> minutesToHoursLabel(item.totalSleepMinutes),
         rank |-> getRankTier(score),
         score |-> score,
         rem |-> minutesToHoursLabel(item.remSleepMinutes),
         deep |-> minutesToHoursLabel(item.deepSleepMinutes),
         lightMinutes |-> lightSleep(item),
         light |-> minutesToHoursLabel(lightSleep(item))]

\* nights.map((night) => renderHistoryItem({ item: night }))
renderHistory(list) == [i \in DOMAIN list |-> renderHistoryItem(list[i])]

----------------------------------------------------------------------------
(* MySleepScreen: the manual log *)

\* StrWhiteSpaceChar of StringToNumber: the WhiteSpace and LineTerminator
\* characters.  A character is written as itself where a TLA+ string can
\* hold it, and by its code point where it cannot.
StrWhiteSpaceChars ==
    {" ", "\t", "\n", "\f", "\r", "U+000B", "U+00A0", "U+1680", "U+2000",
     "U+2001", "U+2002", "U+2003", "U+2004", "U+2005", "U+2006", "U+2007",
     "U+2008", "U+2009", "U+200A", "U+2028", "U+2029", "U+202F", "U+205F",
     "U+3000", "U+FEFF"}

IsBlank(c) == c \in StrWhiteSpaceChars

Trimmed(text) ==
    LET inked == {i \in DOMAIN text : ~IsBlank(text[i])}
    IN  IF inked = {} THEN <<>>
        ELSE LET first == CHOOSE i \in inked : \A j \in inked : i <= j
                 last == CHOOSE i \in inked : \A j \in inked : i >= j
             IN  SubSeq(text, first, last)

IsDigit(c) == \E d \in DOMAIN Digits : Digits[d] = c

DigitOf(c) == (CHOOSE d \in DOMAIN Digits : Digits[d] = c) - 1

\* The digits of the binary, octal and hexadecimal literals.
HexDigits ==
    <<"0", "1", "2", "3", "4", "5", "6", "7", "8", "9", "a", "b", "c", "d",
      "e", "f">>

\* The value of a character as a digit of a literal, 16 for a character that
\* is no digit.
RadixDigitOf(c) ==
    LET places == {d \in DOMAIN HexDigits :
                      HexDigits[d] = c \/ HexCapitals[d] = c}
    IN  IF places = {} THEN 16 ELSE (CHOOSE d \in places : TRUE) - 1

\* The radix a text announces with 0b, 0o or 0x, in either case; 10 when it
\* announces none.
RadixOf(t) ==
    IF Len(t) < 2 \/ t[1] # "0" THEN 10
    ELSE IF t[2] \in {"b", "B"} THEN 2
    ELSE IF t[2] \in {"o", "O"} THEN 8
    ELSE IF t[2] \in {"x", "X"} THEN 16
    ELSE 10

\* Natural numbers of any size, for the arithmetic of binary64 numbers.
Max(a, b) == IF a >= b THEN a ELSE b

Min(a, b) == IF a <= b THEN a ELSE b

\* A natural number of any size is the sequence of its digits to the base
\* Base, the lowest first and the highest not 0; zero is the empty sequence.
Base == 2 ^ 10

BaseBits == CHOOSE k \in 1..30 : 2 ^ k = Base

RECURSIVE BigOf(_)
BigOf(n) == IF n = 0 THEN <<>> ELSE <<n % Base>> \o BigOf(n \div Base)

\* The binary digits of a natural number below 2^31, the lowest first.
RECURSIVE BitsOf(_)
BitsOf(n) == IF n = 0 THEN <<>> ELSE <<n % 2>> \o BitsOf(n \div 2)

\* The natural number of the n highest binary digits of x.
RECURSIVE NatOf(_, _)
NatOf(x, n) == IF n = 0 THEN 0 ELSE 2 * NatOf(x, n - 1) + x[Len(x) - n + 1]

\* x without the zeros above its highest digit that is not 0
Stripped(x) ==
    LET top == {i \in DOMAIN x :
                   x[i] # 0 /\ \A j \in (i + 1)..Len(x) : x[j] = 0}
    IN  IF top = {} THEN <<>> ELSE SubSeq(x, 1, CHOOSE i \in top : TRUE)

DigitAt(x, i) == IF 1 <= i /\ i <= Len(x) THEN x[i] ELSE 0

\* The number of binary digits of x
BitLength(x) ==
    IF x = <<>> THEN 0
    ELSE BaseBits * (Len(x) - 1)
           + CHOOSE k \in 1..BaseBits :
                2 ^ (k - 1) <= x[Len(x)] /\ x[Len(x)] < 2 ^ k

\* The binary digits of x, the lowest first.
BinaryOf(x) ==
    <<>> \o [i \in 1..BitLength(x) |->
                (x[(i - 1) \div BaseBits + 1]
                   \div 2 ^ ((i - 1) % BaseBits)) % 2]

\* The natural number of binary digits, the lowest first.
BigOfBinary(bits) ==
    Stripped(<<>> \o [i \in 1..((Len(bits) + BaseBits - 1) \div BaseBits) |->
                         LET part == SubSeq(bits, BaseBits * (i - 1) + 1,
                                            Min(Len(bits), BaseBits * i))
                         IN  NatOf(part, Len(part))])

\* The carry into place i of x + y: the nearest lower place that does not
\* pass a carry on makes one.
CarryInto(x, y, i) ==
    \E j \in 1..(i - 1) :
        /\ DigitAt(x, i - j) + DigitAt(y, i - j) >= Base
        /\ \A k \in 1..(j - 1) :
              DigitAt(x, i - k) + DigitAt(y, i - k) = Base - 1

\* x + y
BigPlus(x, y) ==
    Stripped(<<>> \o [i \in 1..(Max(Len(x), Len(y)) + 1) |->
                         (DigitAt(x, i) + DigitAt(y, i)
                            + IF CarryInto(x, y, i) THEN 1 ELSE 0) % Base])

\* The borrow from place i of x - y.
BorrowFrom(x, y, i) ==
    \E j \in 1..(i - 1) :
        /\ DigitAt(x, i - j) < DigitAt(y, i - j)
        /\ \A k \in 1..(j - 1) : DigitAt(x, i - k) = DigitAt(y, i - k)

\* x - y, for x >= y
BigMinus(x, y) ==
    Stripped(<<>> \o [i \in DOMAIN x |->
                         (x[i] - DigitAt(y, i)
                            - IF BorrowFrom(x, y, i) THEN 1 ELSE 0) % Base])

\* x < y
BigLess(x, y) ==
    IF Len(x) # Len(y) THEN Len(x) < Len(y)
    ELSE \E j \in DOMAIN x :
            /\ x[Len(x) + 1 - j] < y[Len(x) + 1 - j]
            /\ \A k \in 1..(j - 1) : x[Len(x) + 1 - k] = y[Len(x) + 1 - k]

\* x * 2^k
Shifted(x, k) ==
    IF x = <<>> THEN <<>>
    ELSE LET by == 2 ^ (k % BaseBits)
         IN  [i \in 1..(k \div BaseBits) |-> 0]
               \o Stripped(<<>> \o [i \in 1..(Len(x) + 1) |->
                                       ((DigitAt(x, i) * by) % Base)
                                         + ((DigitAt(x, i - 1) * by)
                                              \div Base)])

\* The sum of x[i] * y[k + 1 - i] over the places i in lo..hi.
RECURSIVE ColumnSum(_, _, _, _, _)
ColumnSum(x, y, k, lo, hi) ==
    IF lo > hi THEN 0
    ELSE IF lo = hi THEN x[lo] * y[k + 1 - lo]
    ELSE ColumnSum(x, y, k, lo, (lo + hi) \div 2)
           + ColumnSum(x, y, k, (lo + hi) \div 2 + 1, hi)

\* x * y: the sums of the columns of the long multiplication, each of three
\* digits, added up.
BigTimes(x, y) ==
    IF x = <<>> \/ y = <<>> THEN <<>>
    ELSE LET columns == <<>> \o [k \in 1..(Len(x) + Len(y) - 1) |->
                                    ColumnSum(x, y, k, Max(1, k + 1 - Len(y)),
                                              Min(k, Len(x)))]
             low == <<>> \o [k \in DOMAIN columns |-> columns[k] % Base]
             mid == <<0>> \o [k \in DOMAIN columns |->
                                 (columns[k] \div Base) % Base]
             high == <<0, 0>> \o [k \in DOMAIN columns |->
                                     columns[k] \div (Base * Base)]
         IN  BigPlus(BigPlus(low, mid), high)

\* b^k
RECURSIVE Power(_, _)
Power(b, k) ==
    IF k = 0 THEN <<1>>
    ELSE LET half == Power(b, k \div 2)
             square == BigTimes(half, half)
         IN  IF k % 2 = 1 THEN BigTimes(square, b) ELSE square

\* The number that the digits lo..hi of a literal of the radix write.
RECURSIVE RadixValue(_, _, _, _)
RadixValue(digits, lo, hi, radix) ==
    IF lo > hi THEN <<>>
    ELSE IF lo = hi THEN BigOf(RadixDigitOf(digits[lo]))
    ELSE LET mid == (lo + hi) \div 2
         IN  BigPlus(BigTimes(RadixValue(digits, lo, mid, radix),
                              Power(BigOf(radix), hi - mid)),
                     RadixValue(digits, mid + 1, hi, radix))

\* The binary digits hi..lo of the whole quotient of r by d * 2^lo, the
\* highest first, and the remainder, for r below d * 2^(hi + 1).
RECURSIVE DivideRange(_, _, _, _)
DivideRange(r, d, hi, lo) ==
    IF hi = lo
    THEN LET part == Shifted(d, lo)
         IN  IF BigLess(r, part) THEN [quot |-> <<0>>, rem |-> r]
             ELSE [quot |-> <<1>>, rem |-> BigMinus(r, part)]
    ELSE LET mid == (hi + lo) \div 2
             upper == DivideRange(r, d, hi, mid + 1)
             lower == DivideRange(upper.rem, d, mid, lo)
         IN  [quot |-> upper.quot \o lower.quot, rem |-> lower.rem]

\* A sequence in the opposite order.
Reversed(x) == <<>> \o [i \in DOMAIN x |-> x[Len(x) + 1 - i]]

\* Binary digits and one more: the carry runs through the 1s at the low end.
Incremented(bits) ==
    Stripped(<<>> \o [i \in 1..(Len(bits) + 1) |->
                         IF \A j \in 1..(i - 1) : bits[j] = 1
                         THEN 1 - DigitAt(bits, i) ELSE DigitAt(bits, i)])

\* A number: NaN, an infinity (inf is its sign) or a finite binary64.  A
\* whole number below WholeLimit in size is held by value; every other
\* finite number is (-1)^neg * mant * 2^exp with mant the binary digits, the
\* lowest first, of an odd natural number of at most 53 binary digits.  (The
\* sign of a zero is not held: no check of handleFakeSubmit and no JSON text
\* tells -0 from 0.)
WholeLimit == 2 ^ 24

NaN == [nan |-> TRUE, inf |-> 0, value |-> 0, neg |-> FALSE, mant |-> <<>>,
        exp |-> 0]

Whole(v) == [nan |-> FALSE, inf |-> 0, value |-> v, neg |-> FALSE,
             mant |-> <<>>, exp |-> 0]

Infinite(sign) == [nan |-> FALSE, inf |-> sign, value |-> 0, neg |-> FALSE,
                   mant |-> <<>>, exp |-> 0]

IsFiniteNumber(a) == ~a.nan /\ a.inf = 0

IsWhole(a) == IsFiniteNumber(a) /\ a.mant = <<>>

\* The place of the lowest 1 of x
LowOne(x) == CHOOSE i \in DOMAIN x : x[i] = 1 /\ \A j \in 1..(i - 1) : x[j] = 0

\* The finite number (-1)^neg * m * 2^e, for the binary digits m of a natural
\* number above 0 that a binary64 holds at the exponent e.
Binary64(neg, m, e) ==
    LET low == LowOne(m)
        mant == SubSeq(m, low, Len(m))
        exp == e + low - 1
    IN  IF exp >= 0 /\ Len(mant) + exp <= 24
        THEN Whole((IF neg THEN -1 ELSE 1) * NatOf(mant, Len(mant)) * 2 ^ exp)
        ELSE [nan |-> FALSE, inf |-> 0, value |-> 0, neg |-> neg,
              mant |-> mant, exp |-> exp]

\* The exponent of the highest binary digit of n / d, for natural numbers
\* n and d above 0.
TopExponent(n, d) ==
    IF BigLess(Shifted(n, Max(BitLength(d) - BitLength(n), 0)),
               Shifted(d, Max(BitLength(n) - BitLength(d), 0)))
    THEN BitLength(n) - BitLength(d) - 1
    ELSE BitLength(n) - BitLength(d)

\* The finite number (-1)^neg * m * 2^low, or the infinity when it is 2^1024
\* or more in size, for the binary digits m of a significand.
Finished(neg, m, low) ==
    IF m = <<>> THEN Whole(0)
    ELSE IF Len(m) + low > 1024 THEN Infinite(IF neg THEN -1 ELSE 1)
    ELSE Binary64(neg, m, low)

\* The nearest significand at the exponent low, for the binary digits quot
\* of a quotient cut off one place below low: the lowest digit is the half,
\* and a tie, where nothing is left below the half, goes to the even
\* significand.
Nearest(neg, quot, inexact, low) ==
    Finished(neg,
             IF quot[1] = 1 /\ (inexact \/ quot[2] = 1)
             THEN Incremented(Stripped(Tail(quot)))
             ELSE Stripped(Tail(quot)),
             low)

NearestOf(neg, division, low) ==
    Nearest(neg, Reversed(division.quot), division.rem # <<>>, low)

\* The nearest binary64 whose lowest binary digit has the exponent low.
RoundedAt(neg, n, d, e, low) ==
    NearestOf(neg,
              DivideRange(Shifted(n, Max(e - low + 1, 0)),
                          Shifted(d, Max(low - e - 1, 0)), 54, 0),
              low)

\* The binary64 nearest to (-1)^neg * (n / d) * 2^e, a tie going to the even
\* significand, for natural numbers n and d > 0: a significand has 53
\* binary digits, fewer below 2^-1022, and a number of 2^1024 or more in
\* size is an infinity.
Rounded(neg, n, d, e) ==
    IF n = <<>> THEN Whole(0)
    ELSE IF /\ d = <<1>>
            /\ BitLength(n) <= 53
            /\ e >= -1074
            /\ BitLength(n) + e <= 1024
         THEN Binary64(neg, BinaryOf(n), e)
    ELSE RoundedAt(neg, n, d, e, Max(TopExponent(n, d) + e - 52, -1074))

Magnitude(v) == IF v < 0 THEN 0 - v ELSE v

\* The whole number v
Finite(v) ==
    IF Magnitude(v) < WholeLimit THEN Whole(v)
    ELSE Binary64(v < 0, BitsOf(Magnitude(v)), 0)

\* The sign, the significand and the exponent of a finite number.
IsNegative(a) == IF IsWhole(a) THEN a.value < 0 ELSE a.neg

Significand(a) ==
    IF IsWhole(a) THEN BigOf(Magnitude(a.value)) ELSE BigOfBinary(a.mant)

InfinityText == <<"I", "n", "f", "i", "n", "i", "t", "y">>

Range(text) == {text[i] : i \in DOMAIN text}

AllDigits(digits) == \A i \in DOMAIN digits : IsDigit(digits[i])

\* The place of the first character of a text that is among chars, the
\* place after the text when none is.
FirstOf(text, chars) ==
    LET places == {i \in DOMAIN text : text[i] \in chars}
    IN  IF places = {} THEN Len(text) + 1
        ELSE CHOOSE i \in places : \A j \in places : i <= j

\* Decimal digits without the zeros they start with.
Unpadded(digits) ==
    SubSeq(digits, FirstOf(digits, {c \in Range(digits) : c # "0"}),
           Len(digits))

RECURSIVE DecimalValue(_, _)
DecimalValue(digits, n) ==
    IF n = 0 THEN 0
    ELSE 10 * DecimalValue(digits, n - 1) + DigitOf(digits[n])

\* An exponent from which a literal with digits other than 0 writes a
\* number of 10^309 or more, which is an infinity, or, the exponent being
\* negative, one below 10^-324, which is 0, however many of its characters
\* are digits of the fraction.
ExponentLimit(literal) == Len(literal) + 324

\* The number of the digits of an exponent, or limit when the number is
\* limit or more (a number of more than nine digits is more than the length
\* of any text).
ExponentValue(digits, limit) ==
    LET d == Unpadded(digits)
    IN  IF Len(d) > 9 THEN limit
        ELSE IF DecimalValue(d, Len(d)) > limit THEN limit
        ELSE DecimalValue(d, Len(d))

\* The binary64 nearest to (-1)^neg * n * 10^power, where p is 5 to the
\* power's size.
Scaled(neg, n, power, p) ==
    Rounded(neg, IF power >= 0 THEN BigTimes(n, p) ELSE n,
            IF power >= 0 THEN <<1>> ELSE p, power)

\* StrUnsignedDecimalLiteral other than Infinity: decimal digits with at
\* most one point among or around them, then possibly e or E, an optional
\* sign and decimal digits.  The number is the binary64 nearest to the
\* number the literal writes.
DecimalLiteral(neg, literal) ==
    LET mark == FirstOf(literal, {"e", "E"})
        mantissa == SubSeq(literal, 1, mark - 1)
        exponent == SubSeq(literal, mark + 1, Len(literal))
        point == FirstOf(mantissa, {"."})
        whole == SubSeq(mantissa, 1, point - 1)
        fraction == SubSeq(mantissa, point + 1, Len(mantissa))
        signed == exponent # <<>> /\ exponent[1] \in {"-", "+"}
        exponentDigits == IF signed THEN Tail(exponent) ELSE exponent
        digits == Unpadded(whole \o fraction)
        power == (IF signed /\ exponent[1] = "-"
                  THEN 0 - ExponentValue(exponentDigits, ExponentLimit(literal))
                  ELSE ExponentValue(exponentDigits, ExponentLimit(literal)))
                   - Len(fraction)
    IN  IF \/ ~AllDigits(whole) \/ ~AllDigits(fraction)
           \/ whole \o fraction = <<>>
           \/ mark <= Len(literal)
                /\ (exponentDigits = <<>> \/ ~AllDigits(exponentDigits))
        THEN NaN
        ELSE IF digits = <<>> THEN Whole(0)
        ELSE IF power >= 0 /\ Len(digits) + power <= 7
             THEN Whole((IF neg THEN -1 ELSE 1)
                          * DecimalValue(digits, Len(digits)) * 10 ^ power)
        ELSE IF Len(digits) - 1 + power >= 309
             THEN Infinite(IF neg THEN -1 ELSE 1)
        ELSE IF Len(digits) + power <= -324 THEN Whole(0)
        ELSE Scaled(neg, RadixValue(digits, 1, Len(digits), 10), power,
                    Power(<<5>>, Magnitude(power)))

\* Number(text): the white space at both ends is dropped; the empty text is
\* 0; 0b, 0o and 0x with digits of the radix, without a sign, are the
\* binary, octal and hexadecimal number; an optional sign with Infinity is
\* that infinity; an optional sign with a decimal literal is its number;
\* every other text is NaN.
Number(text) ==
    LET t == Trimmed(text)
        signed == t # <<>> /\ t[1] \in {"-", "+"}
        unsigned == IF signed THEN Tail(t) ELSE t
        literal == SubSeq(t, 3, Len(t))
    IN  IF t = <<>> THEN Whole(0)
        ELSE IF RadixOf(t) # 10
             THEN IF literal # <<>>
                     /\ \A i \in DOMAIN literal :
                           RadixDigitOf(literal[i]) < RadixOf(t)
                  THEN Rounded(FALSE,
                               RadixValue(literal, 1, Len(literal), RadixOf(t)),
                               <<1>>, 0)
                  ELSE NaN
        ELSE IF unsigned = InfinityText
             THEN Infinite(IF t[1] = "-" THEN -1 ELSE 1)
        ELSE DecimalLiteral(t[1] = "-", unsigned)

\* isNaN(a)
isNaN(a) == a.nan

\* a * k, for a whole number k > 0
Times(a, k) ==
    IF a.nan \/ a.inf # 0 THEN a
    ELSE IF IsWhole(a) THEN Finite(a.value * k)
    ELSE Rounded(a.neg, BigTimes(Significand(a), BigOf(k)), <<1>>, a.exp)

\* The binary64 nearest to the sum of two finite numbers, of the natural
\* numbers x and y at the exponent e in size.
Sum(xNegative, x, yNegative, y, e) ==
    Rounded(IF xNegative = yNegative \/ ~BigLess(x, y) THEN xNegative
            ELSE yNegative,
            IF xNegative = yNegative THEN BigPlus(x, y)
            ELSE IF BigLess(x, y) THEN BigMinus(y, x)
            ELSE BigMinus(x, y),
            <<1>>, e)

\* a + b
Plus(a, b) ==
    IF a.nan \/ b.nan THEN NaN
    ELSE IF a.inf # 0 /\ b.inf # 0 THEN (IF a.inf = b.inf THEN a ELSE NaN)
    ELSE IF a.inf # 0 THEN a
    ELSE IF b.inf # 0 THEN b
    ELSE IF IsWhole(a) /\ IsWhole(b) THEN Finite(a.value + b.value)
    ELSE Sum(IsNegative(a),
             Shifted(Significand(a), a.exp - Min(a.exp, b.exp)),
             IsNegative(b),
             Shifted(Significand(b), b.exp - Min(a.exp, b.exp)),
             Min(a.exp, b.exp))

\* a > b: false when one of the two is NaN.
GreaterThan(a, b) ==
    /\ ~a.nan
    /\ ~b.nan
    /\ IF a.inf # b.inf THEN a.inf > b.inf
       ELSE /\ a.inf = 0
            /\ IF IsWhole(a) /\ IsWhole(b) THEN a.value > b.value
               ELSE LET e == Min(a.exp, b.exp)
                        x == Shifted(Significand(a), a.exp - e)
                        y == Shifted(Significand(b), b.exp - e)
                    IN  IF IsNegative(a) # IsNegative(b) THEN IsNegative(b)
                        ELSE IF IsNegative(a) THEN BigLess(x, y)
                        ELSE BigLess(y, x)

\* a <= b: false when one of the two is NaN.
LessOrEqual(a, b) == ~a.nan /\ ~b.nan /\ ~GreaterThan(a, b)

\* h || "0"
OrZero(text) == IF text = <<>> THEN <<"0">> ELSE text

\* parse(h, m) of handleFakeSubmit: null, or the number hr * 60 + mn
ParseNull == [null |-> TRUE] @@ Whole(0)

NotNull(a) == [null |-> FALSE] @@ a

parse(h, m) ==
    LET hr == Number(OrZero(h))
        mn == Number(OrZero(m))
    IN  IF isNaN(hr) \/ isNaN(mn) THEN ParseNull
        ELSE NotNull(Plus(Times(hr, 60), mn))

\* The day the screen is used on, and the local YYYY-MM-DD string that
\* sendFakeNight makes of a date.
Today == AddDays(BaseDate, 3)

localISODate(daysFromToday) == AddDays(BaseDate, 3 + daysFromToday)

\* The body of POST /sleep/upload as JSON.stringify writes it: a date and
\* three numbers.  A number that is NaN or an infinity is written as null:
\* nulls holds the names of the fields written so (their number is 0 here).
UploadBody(date, total, rem, deep) ==
    [date |-> date, totalSleepMinutes |-> total, remSleepMinutes |-> rem,
     deepSleepMinutes |-> deep, nulls |-> {}]

\* A finite number as JSON.stringify writes it: a whole number held by value
\* is that value, every other number its sign, significand and exponent.
JsonNumber(a) ==
    IF IsWhole(a) THEN a.value
    ELSE [neg |-> a.neg, mant |-> a.mant, exp |-> a.exp]

\* The body sendFakeNight(date, total, rem, deep) hands to apiPost.
ManualUploadBody(date, total, rem, deep) ==
    [date |-> date,
     totalSleepMinutes |-> IF IsFiniteNumber(total) THEN JsonNumber(total)
                           ELSE 0,
     remSleepMinutes |-> IF IsFiniteNumber(rem) THEN JsonNumber(rem)
                           ELSE 0,
     deepSleepMinutes |-> IF IsFiniteNumber(deep) THEN JsonNumber(deep)
                           ELSE 0,
     nulls |-> {name \in {"totalSleepMinutes", "remSleepMinutes",
                          "deepSleepMinutes"} :
                   ~IsFiniteNumber(CASE name = "totalSleepMinutes" -> total
                                     [] name = "remSleepMinutes" -> rem
                                     [] OTHER -> deep)}]

\* The first check of handleFakeSubmit.
InvalidDuration(total, rem, deep) ==
    total.null \/ rem.null \/ deep.null \/ LessOrEqual(total, Whole(0))

\* The second check.
ComponentsExceed(total, rem, deep) == GreaterThan(Plus(rem, deep), total)

----------------------------------------------------------------------------
(* MySleepScreen: the health sync *)

\* Alert.alert(title, message): the message is modelled by its text and by
\* the numbers and the night it prints, when it prints any.
NoNight ==
    [date |-> <<0, 0, 0>>, totalMinutes |-> 0, remMinutes |-> 0,
     deepMinutes |-> 0, coreMinutes |-> 0]

Alert(title, text) ==
    [title |-> title, text |-> text, hasCount |-> FALSE, count |-> 0,
     latest |-> NoNight]

NoAlert == Alert("", "")

\* `Synced ${uploadedCount} nights. Latest (${latest.date}): ...`
SyncCompleteAlert(uploadedCount, latest) ==
    [title |-> "Sync Complete", text |-> "Synced nights", hasCount |-> TRUE,
     count |-> uploadedCount, latest |-> latest]

TimedOutMessage == "HealthKit initialization timed out"

\* The catch of performHealthSync: err.message.includes("timed out") ? ... :
\* err.message
SyncFailedAlert(message) ==
    Alert("Sync Failed",
          IF Includes(message, "timed out")
          THEN "Sync timed out. Please check if a permission dialog is open or try again."
          ELSE message)

\* Math.round of a whole number of minutes.
MathRound(n) == n

\* The body performHealthSync uploads for a night.
SyncUploadBody(night) ==
    UploadBody(night.date, MathRound(night.totalMinutes),
               MathRound(night.remMinutes), MathRound(night.deepMinutes))

\* for (const night of healthData) { ... if (total > 0) ... }: the index of
\* the first night from index i on that is uploaded, Len + 1 when there is
\* none.
NextUploadSkippingOne(healthData, i) ==
    LET uploadable == {j \in (i + 1)..Len(healthData) :
                          MathRound(healthData[j].totalMinutes) > 0}
    IN  IF uploadable = {} THEN Len(healthData) + 1
        ELSE CHOOSE j \in uploadable : \A k \in uploadable : j <= k

NextUpload(healthData, i) ==
    LET uploadable == {j \in i..Len(healthData) :
                          MathRound(healthData[j].totalMinutes) > 0}
    IN  IF uploadable = {} THEN Len(healthData) + 1
        ELSE CHOOSE j \in uploadable : \A k \in uploadable : j <= k

\* A run of performHealthSync: where it is ("init", "fetch", "upload":
\* apiPost awaits the session, "answer": the request is with fetch, "reload":
\* load() awaits apiGet, "done"), its 10 s timer, its locals, the
\* alert it has shown, and the way it has left the try ("running" until then:
\* "init" and "timeout" for a rejected race, "fetch" for a rejected
\* fetchLast7DaysSleep, "empty" for the return on no night, "upload" for a
\* throwing apiPost, "complete" for the end of the try).
NewSyncRun ==
    [step |-> "init", timer |-> "armed", healthData |-> <<>>, next |-> 0,
     uploadedCount |-> 0, reported |-> NoAlert, left |-> "running"]

----------------------------------------------------------------------------
(* What GET /sleep/me?days=7 can answer *)

MaxTotalMinutes == 520
MaxNegativeMinutes == 140

SleepNight(date, total, rem, deep) ==
    [date |-> date, totalSleepMinutes |-> total, remSleepMinutes |-> rem,
     deepSleepMinutes |-> deep]

\* One night of every total of the range, without stages.
ScoredNights ==
    {SleepNight(AddDays(BaseDate, 2), t, 0, 0) :
        t \in (0 - MaxNegativeMinutes)..MaxTotalMinutes}

\* Nights with stages: stages within the total, and stages that exceed it.
StagedNights ==
    {SleepNight(AddDays(BaseDate, 1), t, r, d) :
        t \in {20, 480}, r \in {0, 20}, d \in {0, 20, 200}}

ServerNights ==
    {<<>>} \cup {<<night>> : night \in ScoredNights \cup StagedNights}
      \cup {<<a, b>> : a \in StagedNights, b \in StagedNights}

\* The answers that are not ok which are followed: res.status and the text
\* of res.text().  (Any other status and text give a message in the same
\* way.)
FailedAnswers ==
    {[status |-> 500, text |-> ""],
     [status |-> 500, text |-> "upstream request timed out"]}

\* The message of the error fetch rejects with when no answer comes.
NetworkRequestFailed == "Network request failed"

\* `GET ${path} failed: ${res.status} ${text}`
ApiGetFailed(path, status, text) ==
    "GET " \o path \o " failed: " \o ToString(status) \o " " \o text

\* `POST ${path} failed: ${res.status} ${text}`
ApiPostFailed(path, status, text) ==
    "POST " \o path \o " failed: " \o ToString(status) \o " " \o text

\* The messages apiGet("/sleep/me?days=7") can throw with.
LoadErrors ==
    {"No auth token", NetworkRequestFailed}
      \cup {ApiGetFailed("/sleep/me?days=7", res.status, res.text) :
               res \in FailedAnswers}

\* The messages apiPost("/sleep/upload", body) can throw with once the
\* request is sent.
PostErrors ==
    {NetworkRequestFailed}
      \cup {ApiPostFailed("/sleep/upload", res.status, res.text) :
               res \in FailedAnswers}

\* The night the server answers with after it has stored an upload.
StoredNight(body) ==
    SleepNight(body.date, body.totalSleepMinutes, body.remSleepMinutes,
               body.deepSleepMinutes)

----------------------------------------------------------------------------
(* What can be typed into the fields of the manual log *)

MaxDaysBack == 1
MaxManualPosts == 1

\* The calls of sendFakeNight followed where a call may be made while
\* another is under way.
MaxOverlappingSends == 2

RemHoursTexts == {<<>>, <<"-", "1">>}
TotalMinutesTexts == {<<>>, <<"-">> \o InfinityText}
RemMinutesTexts == {<<>>, <<"x">>}
TotalHoursTexts == {<<>>, <<"1">>, InfinityText}
DeepHoursTexts == {<<>>, <<"1">>}
DeepMinutesTexts == {<<>>, <<" ", "3", "e", "1">>}

----------------------------------------------------------------------------
(* What the health sync can meet *)

MaxSyncRuns == 1
MaxSyncBatch == 3

\* The runs followed where a run may be started while another is under way.
MaxOverlappingRuns == 2

InitErrors ==
    {"HealthKit native module is NOT installed.", "Authorization not determined"}

\* The samples of a week, of three dates, the last of them too short to
\* make a night of its own.  The callback is handed the first samples of the
\* week, up to MaxSyncBatch of them, or the short sample alone.
SyncWeek ==
    << Sample(At(1, 1, 0, 0), At(1, 1, 20, 0), StrValue(Str_REM)),
       Sample(At(1, 13, 40, 0), At(1, 14, 0, 0), NumValue(5)),
       Sample(At(2, 14, 0, 0), At(2, 14, 30, 0), StrValue(Str_CORE)),
       Sample(At(1, 10, 0, 0), At(1, 10, 5, 0), StrValue(Str_DEEP)) >>

SyncBatches ==
    {SubSeq(SyncWeek, 1, n) :
        n \in 0..(IF MaxSyncBatch < Len(SyncWeek) THEN MaxSyncBatch
                  ELSE Len(SyncWeek))}
      \cup {<<SyncWeek[Len(SyncWeek)]>>}

\* What fetchLast7DaysSleep can resolve with.
SyncHealthData == {AggregateResult(batch) : batch \in SyncBatches}

----------------------------------------------------------------------------
(* The state machine *)

Init ==
    /\ promise = "none"
    /\ results = <<>>
    /\ sleepMinutesMap = <<>>
    /\ remMinutesMap = <<>>
    /\ deepMinutesMap = <<>>
    /\ coreMinutesMap = <<>>
    /\ resolved = <<>>
    /\ hasFirst = FALSE
    /\ firstBatch = <<>>
    /\ firstResolved = <<>>
    /\ otherSince = FALSE
    /\ calls = <<>>
    /\ heap = <<>>
    /\ nights = <<>>
    /\ loading = FALSE
    /\ loads = 0
    /\ error = Null
    /\ heroCard = renderHeroCard(<<>>)
    /\ historyRows = <<>>
    /\ posts = <<>>
    /\ fakeModalVisible = FALSE
    /\ fakeTotalHours = <<>>
    /\ fakeTotalMinutes = <<>>
    /\ fakeRemHours = <<>>
    /\ fakeRemMinutes = <<>>
    /\ fakeDeepHours = <<>>
    /\ fakeDeepMinutes = <<>>
    /\ fakeError = Null
    /\ manualDate = 0
    /\ sending = FALSE
    /\ sends = <<>>
    /\ platformOS = "ios"
    /\ healthDisclosureVisible = FALSE
    /\ syncing = FALSE
    /\ syncRuns = <<>>
    /\ alert = NoAlert

\* fetchLast7DaysSleep(): a new promise, settled by the callback.
FetchLast7DaysSleep ==
    /\ promise = "none"
    /\ promise' = "pending"
    /\ UNCHANGED <<results, sleepMinutesMap, remMinutesMap, deepMinutesMap,
                   coreMinutesMap, resolved, hasFirst, firstBatch, firstResolved,
                   otherSince, calls, heap>>
    /\ UNCHANGED screenVars

\* A later call of fetchLast7DaysSleep(), after an earlier one has settled;
\* the callbacks of at most MaxRuns calls make their maps.
FetchAgain ==
    /\ promise \in {"resolved", "rejected"}
    /\ Len(WithNewMaps(heap)) <= MaxRuns * Len(WithNewMaps(<<>>))
    /\ promise' = "pending"
    /\ UNCHANGED <<results, sleepMinutesMap, remMinutesMap, deepMinutesMap,
                   coreMinutesMap, resolved, hasFirst, firstBatch, firstResolved,
                   otherSince, calls, heap>>
    /\ UNCHANGED screenVars

\* The callback with err set: reject(err).
SleepSamplesError ==
    /\ promise = "pending"
    /\ promise' = "rejected"
    /\ UNCHANGED <<results, sleepMinutesMap, remMinutesMap, deepMinutesMap,
                   coreMinutesMap, resolved, hasFirst, firstBatch, firstResolved,
                   otherSince, calls, heap>>
    /\ UNCHANGED screenVars

\* The callback with results: the whole aggregation, then resolve(finalResults).
\* The four maps are made on the heap, beside the maps that earlier
\* callbacks made; results.forEach and sleepMinutesMap.forEach work on the
\* objects that the four names refer to.
Aggregate(batch) ==
    /\ promise = "pending"
    /\ LET refs == NewMapRefs(heap)
           maps == ForEachSample(MapsAt(WithNewMaps(heap), refs), batch, 1)
       IN  /\ heap' = Stored(WithNewMaps(heap), refs, maps)
           /\ sleepMinutesMap' = maps.sleep
           /\ remMinutesMap' = maps.rem
           /\ deepMinutesMap' = maps.deep
           /\ coreMinutesMap' = maps.core
           /\ resolved' = SortFinalResults(BuildFinalResults(maps))
    /\ results' = batch
    /\ promise' = "resolved"

SleepSamplesCallback ==
    \E batch \in Batches :
        /\ Aggregate(batch)
        /\ UNCHANGED <<hasFirst, firstBatch, firstResolved, otherSince, calls>>
        /\ UNCHANGED screenVars

\* The same callback, with the first run's batch and result kept as history.
RecordedSleepSamplesCallback ==
    \E batch \in RerunBatches :
        /\ Aggregate(batch)
        /\ hasFirst' = TRUE
        /\ firstBatch' = IF hasFirst THEN firstBatch ELSE batch
        /\ firstResolved' = IF hasFirst THEN firstResolved ELSE resolved'
        /\ otherSince' = (otherSince \/ (hasFirst /\ batch # firstBatch))
        /\ UNCHANGED <<calls, screenVars>>

\* The same callback, on the batches of the end-to-end scenario.
ScenarioSamplesCallback ==
    \E batch \in ScenarioBatches :
        /\ Aggregate(batch)
        /\ UNCHANGED <<hasFirst, firstBatch, firstResolved, otherSince, calls>>
        /\ UNCHANGED screenVars

Next == FetchLast7DaysSleep \/ SleepSamplesCallback \/ SleepSamplesError

Spec == Init /\ [][Next]_vars

NextRerun ==
    \/ FetchLast7DaysSleep
    \/ FetchAgain
    \/ RecordedSleepSamplesCallback
    \/ SleepSamplesError

SpecRerun == Init /\ [][NextRerun]_vars

NextScenario ==
    \/ FetchLast7DaysSleep
    \/ ScenarioSamplesCallback
    \/ SleepSamplesError

SpecScenario == Init /\ [][NextScenario]_vars

\* The same callback, on one sample of any alignment.
AlignmentSampleCallback ==
    \E sample \in AlignmentSamples :
        /\ Aggregate(<<sample>>)
        /\ UNCHANGED <<hasFirst, firstBatch, firstResolved, otherSince, calls>>
        /\ UNCHANGED screenVars

NextAlignment ==
    \/ FetchLast7DaysSleep
    \/ AlignmentSampleCallback
    \/ SleepSamplesError

SpecAlignment == Init /\ [][NextAlignment]_vars

----------------------------------------------------------------------------
(* Calls of fetchLast7DaysSleep that overlap *)

\* A call: its promise, where its callback is ("called" before the callback,
\* "forEach" inside results.forEach at the sample of index i, "returned"
\* after it), the callback's results, the references to its four maps, and
\* what the promise resolved with.  waiting and interrupted are history: a
\* callback that has made a pass and has passes left is waiting once another
\* callback has made a pass, and has been interrupted when it makes its next
\* pass after that.
NewCall ==
    [promise |-> "pending", step |-> "called", results |-> <<>>, i |-> 0,
     maps |-> [sleep |-> 0, rem |-> 0, deep |-> 0, core |-> 0],
     resolved |-> <<>>, waiting |-> FALSE, interrupted |-> FALSE]

\* const sleepMinutesMap = new Map(); ... : the four maps are made inside
\* the callback, once for each call of it.
MapsOfAnotherCall(c) ==
    IF \E d \in DOMAIN calls : d # c /\ calls[d].maps # NewCall.maps
    THEN calls[CHOOSE d \in DOMAIN calls : d # c /\ calls[d].maps # NewCall.maps].maps
    ELSE NewMapRefs(heap)

MapsOfCall(c) == NewMapRefs(heap)

\* fetchLast7DaysSleep(), while earlier calls may not have settled.
CallFetchLast7DaysSleep ==
    /\ Len(calls) < MaxCalls
    /\ calls' = Append(calls, NewCall)
    /\ UNCHANGED <<oneCallVars, heap, screenVars>>

\* The callback of a call with err set: reject(err).
CallbackError ==
    \E c \in DOMAIN calls :
        /\ calls[c].step = "called"
        /\ calls' = [calls EXCEPT ![c] =
                        [@ EXCEPT !.promise = "rejected", !.step = "returned"]]
        /\ UNCHANGED <<oneCallVars, heap, screenVars>>

\* The callback of a call with results, up to results.forEach.
CallbackStarts ==
    \E c \in DOMAIN calls : \E batch \in CallBatches :
        /\ calls[c].step = "called"
        /\ heap' = WithNewMaps(heap)
        /\ calls' = [calls EXCEPT ![c] =
                        [@ EXCEPT !.step = "forEach", !.results = batch,
                                  !.i = 1, !.maps = MapsOfCall(c)]]
        /\ UNCHANGED <<oneCallVars, screenVars>>

\* The calls after a pass of the callback of call c: its index moves on, and
\* the history of every call is brought up to date.
AfterPassOf(c) ==
    [d \in DOMAIN calls |->
        IF d = c
        THEN [calls[d] EXCEPT !.i = @ + 1, !.waiting = FALSE,
                              !.interrupted = @ \/ calls[d].waiting]
        ELSE [calls[d] EXCEPT !.waiting =
                  @ \/ (/\ calls[d].step = "forEach"
                        /\ 1 < calls[d].i
                        /\ calls[d].i <= Len(calls[d].results))]]

\* One pass of results.forEach, on the objects that the references of the
\* callback lead to.  JavaScript runs a callback to its end before it runs
\* another; the passes of two callbacks are let interleave here, which
\* covers every order the runtime can produce and more.
CallbackForEach ==
    \E c \in DOMAIN calls :
        /\ calls[c].step = "forEach"
        /\ calls[c].i <= Len(calls[c].results)
        /\ heap' = Stored(heap, calls[c].maps,
                          ProcessSample(MapsAt(heap, calls[c].maps),
                                        calls[c].results[calls[c].i]))
        /\ calls' = AfterPassOf(c)
        /\ UNCHANGED <<oneCallVars, screenVars>>

\* After the last pass: sleepMinutesMap.forEach, the sort, resolve.
CallbackResolves ==
    \E c \in DOMAIN calls :
        /\ calls[c].step = "forEach"
        /\ calls[c].i > Len(calls[c].results)
        /\ calls' = [calls EXCEPT ![c] =
              [@ EXCEPT !.step = "returned", !.promise = "resolved",
                        !.resolved = SortFinalResults(BuildFinalResults(
                                         MapsAt(heap, calls[c].maps)))]]
        /\ UNCHANGED <<oneCallVars, heap, screenVars>>

NextCalls ==
    \/ CallFetchLast7DaysSleep
    \/ CallbackError
    \/ CallbackStarts
    \/ CallbackForEach
    \/ CallbackResolves

SpecCalls == Init /\ [][NextCalls]_vars

----------------------------------------------------------------------------
(* MySleepScreen: load() and what the screen shows *)

\* load(), called by the effect of the mount or by onRefresh of the list,
\* whose RefreshControl is refreshing while loading is true, up to the await
\* of apiGet: setLoading(true); setError(null).
LoadStart ==
    /\ ~loading
    /\ loads' = loads + 1
    /\ loading' = TRUE
    /\ error' = Null
    /\ UNCHANGED <<nights, heroCard, historyRows>>
    /\ UNCHANGED <<aggregatorVars, posts, manualVars, syncVars>>

\* apiGet answers: setNights(data.nights ?? []), setLoading(false), and the
\* screen renders the new nights.
SetNights(data) ==
    /\ nights' = data
    /\ heroCard' = renderHeroCard(data)
    /\ historyRows' = renderHistory(data)

\* The continuation of load() runs when its request is answered, whatever
\* loading has been set to since by the load() of sendFakeNight or of a
\* health sync.
LoadResolved ==
    /\ loads > 0
    /\ loads' = loads - 1
    /\ \E data \in ServerNights : SetNights(data)
    /\ loading' = FALSE
    /\ UNCHANGED error
    /\ UNCHANGED <<aggregatorVars, posts, manualVars, syncVars>>

\* apiGet throws: setError(e.message), setLoading(false).
LoadFailed ==
    /\ loads > 0
    /\ loads' = loads - 1
    /\ \E message \in LoadErrors : error' = message
    /\ loading' = FALSE
    /\ UNCHANGED <<nights, heroCard, historyRows>>
    /\ UNCHANGED <<aggregatorVars, posts, manualVars, syncVars>>

NextDisplay == LoadStart \/ LoadResolved \/ LoadFailed

SpecDisplay == Init /\ [][NextDisplay]_vars

----------------------------------------------------------------------------
(* MySleepScreen: the manual log *)

\* The manual log is followed over MaxManualPosts calls of sendFakeNight.
CanLogAgain == Len(sends) < MaxManualPosts

\* The add button of the header: setManualDate(new Date());
\* setFakeModalVisible(true).
OpenLogFromHeader ==
    /\ ~fakeModalVisible
    /\ manualDate' = 0
    /\ fakeModalVisible' = TRUE
    /\ UNCHANGED <<fakeFields, fakeError, sending, sends>>
    /\ UNCHANGED <<aggregatorVars, displayVars, posts, syncVars>>

\* "Log Manually" of the empty hero card: setFakeModalVisible(true).
OpenLogFromHero ==
    /\ ~fakeModalVisible
    /\ heroCard.empty
    /\ fakeModalVisible' = TRUE
    /\ UNCHANGED <<fakeFields, fakeError, manualDate, sending, sends>>
    /\ UNCHANGED <<aggregatorVars, displayVars, posts, syncVars>>

\* Cancel, or the back gesture: setFakeModalVisible(false).
CancelLog ==
    /\ fakeModalVisible
    /\ fakeModalVisible' = FALSE
    /\ UNCHANGED <<fakeFields, fakeError, manualDate, sending, sends>>
    /\ UNCHANGED <<aggregatorVars, displayVars, posts, syncVars>>

\* changeManualDate(days): a day in the future is refused.
ChangeManualDate ==
    /\ fakeModalVisible
    /\ \E days \in {-1, 1} :
        /\ manualDate + days >= 0 - MaxDaysBack
        /\ manualDate' = IF manualDate + days > 0 THEN manualDate
                          ELSE manualDate + days
    /\ UNCHANGED <<fakeModalVisible, fakeFields, fakeError, sending, sends>>
    /\ UNCHANGED <<aggregatorVars, displayVars, posts, syncVars>>

\* onChangeText of each of the six fields.
SetFakeTotalHours ==
    /\ fakeModalVisible
    /\ \E text \in TotalHoursTexts : fakeTotalHours' = text
    /\ UNCHANGED <<fakeTotalMinutes, fakeRemHours, fakeRemMinutes, fakeDeepHours,
                   fakeDeepMinutes>>
    /\ UNCHANGED <<fakeModalVisible, fakeError, manualDate, sending, sends>>
    /\ UNCHANGED <<aggregatorVars, displayVars, posts, syncVars>>

SetFakeTotalMinutes ==
    /\ fakeModalVisible
    /\ \E text \in TotalMinutesTexts : fakeTotalMinutes' = text
    /\ UNCHANGED <<fakeTotalHours, fakeRemHours, fakeRemMinutes, fakeDeepHours,
                   fakeDeepMinutes>>
    /\ UNCHANGED <<fakeModalVisible, fakeError, manualDate, sending, sends>>
    /\ UNCHANGED <<aggregatorVars, displayVars, posts, syncVars>>

SetFakeRemHours ==
    /\ fakeModalVisible
    /\ \E text \in RemHoursTexts : fakeRemHours' = text
    /\ UNCHANGED <<fakeTotalHours, fakeTotalMinutes, fakeRemMinutes, fakeDeepHours,
                   fakeDeepMinutes>>
    /\ UNCHANGED <<fakeModalVisible, fakeError, manualDate, sending, sends>>
    /\ UNCHANGED <<aggregatorVars, displayVars, posts, syncVars>>

SetFakeRemMinutes ==
    /\ fakeModalVisible
    /\ \E text \in RemMinutesTexts : fakeRemMinutes' = text
    /\ UNCHANGED <<fakeTotalHours, fakeTotalMinutes, fakeRemHours, fakeDeepHours,
                   fakeDeepMinutes>>
    /\ UNCHANGED <<fakeModalVisible, fakeError, manualDate, sending, sends>>
    /\ UNCHANGED <<aggregatorVars, displayVars, posts, syncVars>>

SetFakeDeepHours ==
    /\ fakeModalVisible
    /\ \E text \in DeepHoursTexts : fakeDeepHours' = text
    /\ UNCHANGED <<fakeTotalHours, fakeTotalMinutes, fakeRemHours, fakeRemMinutes,
                   fakeDeepMinutes>>
    /\ UNCHANGED <<fakeModalVisible, fakeError, manualDate, sending, sends>>
    /\ UNCHANGED <<aggregatorVars, displayVars, posts, syncVars>>

SetFakeDeepMinutes ==
    /\ fakeModalVisible
    /\ \E text \in DeepMinutesTexts : fakeDeepMinutes' = text
    /\ UNCHANGED <<fakeTotalHours, fakeTotalMinutes, fakeRemHours, fakeRemMinutes,
                   fakeDeepHours>>
    /\ UNCHANGED <<fakeModalVisible, fakeError, manualDate, sending, sends>>
    /\ UNCHANGED <<aggregatorVars, displayVars, posts, syncVars>>

\* A call of sendFakeNight: where it is ("token": apiPost awaits the
\* session, "answer": the request is with fetch, "reload": load() awaits
\* apiGet, "done"), and the body it hands to apiPost.
NewSend(body) == [step |-> "token", body |-> body]

\* A request handed to fetch, not answered yet.
NewPost(by, run, body) == [by |-> by, run |-> run, body |-> body, answer |-> "none"]

\* What becomes of a request with which apiPost throws: "failed" when fetch
\* rejects, "refused" when the answer is not ok.
AnswerOf(message) ==
    IF message = NetworkRequestFailed THEN "failed" ELSE "refused"

\* The request of the k-th call of sendFakeNight.
ManualPost(k) ==
    CHOOSE i \in DOMAIN posts : posts[i].by = "manual" /\ posts[i].run = k

\* handleFakeSubmit(): a refused entry sets fakeError and returns; an
\* accepted one closes the modal and calls sendFakeNight, which runs up to
\* the await of apiPost: setSending(true); setError(null).
HandleFakeSubmit ==
    /\ fakeModalVisible
    /\ LET total == parse(fakeTotalHours, fakeTotalMinutes)
           rem == parse(fakeRemHours, fakeRemMinutes)
           deep == parse(fakeDeepHours, fakeDeepMinutes)
       IN  IF InvalidDuration(total, rem, deep)
           THEN /\ fakeError' = "Invalid duration."
                /\ UNCHANGED <<fakeModalVisible, sending, sends, error>>
           ELSE IF ComponentsExceed(total, rem, deep)
           THEN /\ fakeError' = "Components cannot exceed total."
                /\ UNCHANGED <<fakeModalVisible, sending, sends, error>>
           ELSE /\ CanLogAgain
                /\ fakeError' = Null
                /\ fakeModalVisible' = FALSE
                /\ sending' = TRUE
                /\ error' = Null
                /\ sends' = Append(sends,
                      NewSend(ManualUploadBody(localISODate(manualDate), total,
                                               rem, deep)))
    /\ UNCHANGED <<fakeFields, manualDate, posts>>
    /\ UNCHANGED <<nights, loading, loads, heroCard, historyRows>>
    /\ UNCHANGED <<aggregatorVars, syncVars>>

\* apiPost of sendFakeNight has no token: nothing is sent; setError,
\* setSending(false).
SendNoToken ==
    \E k \in DOMAIN sends :
        /\ sends[k].step = "token"
        /\ error' = "No auth token"
        /\ sending' = FALSE
        /\ sends' = [sends EXCEPT ![k] = [@ EXCEPT !.step = "done"]]
        /\ UNCHANGED <<fakeModalVisible, fakeFields, fakeError, manualDate>>
        /\ UNCHANGED <<nights, loading, loads, heroCard, historyRows, posts>>
        /\ UNCHANGED <<aggregatorVars, syncVars>>

\* apiPost of sendFakeNight has the token: the request is handed to fetch,
\* and apiPost awaits the answer.
SendPosted ==
    \E k \in DOMAIN sends :
        /\ sends[k].step = "token"
        /\ posts' = Append(posts, NewPost("manual", k, sends[k].body))
        /\ sends' = [sends EXCEPT ![k] = [@ EXCEPT !.step = "answer"]]
        /\ UNCHANGED <<fakeModalVisible, fakeFields, fakeError, manualDate, sending>>
        /\ UNCHANGED displayVars
        /\ UNCHANGED <<aggregatorVars, syncVars>>

\* fetch rejects, or the answer is not ok: apiPost throws; setError,
\* setSending(false).
SendRefused ==
    \E k \in DOMAIN sends :
        /\ sends[k].step = "answer"
        /\ \E message \in PostErrors :
              /\ error' = message
              /\ posts' = [posts EXCEPT ![ManualPost(k)] =
                              [@ EXCEPT !.answer = AnswerOf(message)]]
        /\ sending' = FALSE
        /\ sends' = [sends EXCEPT ![k] = [@ EXCEPT !.step = "done"]]
        /\ UNCHANGED <<fakeModalVisible, fakeFields, fakeError, manualDate>>
        /\ UNCHANGED <<nights, loading, loads, heroCard, historyRows>>
        /\ UNCHANGED <<aggregatorVars, syncVars>>

\* The answer is ok: sendFakeNight goes on to load(), up to its await of
\* apiGet: setLoading(true); setError(null).
SendAccepted ==
    \E k \in DOMAIN sends :
        /\ sends[k].step = "answer"
        /\ posts' = [posts EXCEPT ![ManualPost(k)] = [@ EXCEPT !.answer = "ok"]]
        /\ loading' = TRUE
        /\ UNCHANGED loads
        /\ error' = Null
        /\ sends' = [sends EXCEPT ![k] = [@ EXCEPT !.step = "reload"]]
        /\ UNCHANGED <<fakeModalVisible, fakeFields, fakeError, manualDate, sending>>
        /\ UNCHANGED <<nights, heroCard, historyRows>>
        /\ UNCHANGED <<aggregatorVars, syncVars>>

\* What GET /sleep/me?days=7 answers with after the server was sent a body:
\* no night, or the night of a body of numbers.
ReloadedAfter(body) ==
    IF body.nulls = {} THEN {<<>>, <<StoredNight(body)>>} ELSE {<<>>}

\* load() of sendFakeNight ends, with nights or with an error; then
\* setSending(false).
SendReloaded ==
    \E k \in DOMAIN sends :
        /\ sends[k].step = "reload"
        /\ \/ /\ \E data \in ReloadedAfter(sends[k].body) : SetNights(data)
              /\ UNCHANGED error
           \/ /\ \E message \in LoadErrors : error' = message
              /\ UNCHANGED <<nights, heroCard, historyRows>>
        /\ loading' = FALSE
        /\ UNCHANGED loads
        /\ sending' = FALSE
        /\ sends' = [sends EXCEPT ![k] = [@ EXCEPT !.step = "done"]]
        /\ UNCHANGED <<fakeModalVisible, fakeFields, fakeError, manualDate>>
        /\ UNCHANGED posts
        /\ UNCHANGED <<aggregatorVars, syncVars>>

NextManual ==
    \/ OpenLogFromHeader
    \/ OpenLogFromHero
    \/ CancelLog
    \/ ChangeManualDate
    \/ SetFakeTotalHours
    \/ SetFakeTotalMinutes
    \/ SetFakeRemHours
    \/ SetFakeRemMinutes
    \/ SetFakeDeepHours
    \/ SetFakeDeepMinutes
    \/ HandleFakeSubmit
    \/ SendNoToken
    \/ SendPosted
    \/ SendRefused
    \/ SendAccepted
    \/ SendReloaded

SpecManual == Init /\ [][NextManual]_vars

\* handleFakeSubmit(), where a second call of sendFakeNight is followed too:
\* "Save Log" is not disabled while a send is in progress.
HandleFakeSubmitAgain ==
    /\ fakeModalVisible
    /\ LET total == parse(fakeTotalHours, fakeTotalMinutes)
           rem == parse(fakeRemHours, fakeRemMinutes)
           deep == parse(fakeDeepHours, fakeDeepMinutes)
       IN  IF InvalidDuration(total, rem, deep)
           THEN /\ fakeError' = "Invalid duration."
                /\ UNCHANGED <<fakeModalVisible, sending, sends, error>>
           ELSE IF ComponentsExceed(total, rem, deep)
           THEN /\ fakeError' = "Components cannot exceed total."
                /\ UNCHANGED <<fakeModalVisible, sending, sends, error>>
           ELSE /\ Len(sends) < MaxOverlappingSends
                /\ fakeError' = Null
                /\ fakeModalVisible' = FALSE
                /\ sending' = TRUE
                /\ error' = Null
                /\ sends' = Append(sends,
                      NewSend(ManualUploadBody(localISODate(manualDate), total,
                                               rem, deep)))
    /\ UNCHANGED <<fakeFields, manualDate, posts>>
    /\ UNCHANGED <<nights, loading, loads, heroCard, historyRows>>
    /\ UNCHANGED <<aggregatorVars, syncVars>>

\* The manual log, followed over calls of sendFakeNight that can overlap,
\* with the total hours as the one field that is typed into.
NextManualTwice ==
    \/ OpenLogFromHeader
    \/ SetFakeTotalHours
    \/ HandleFakeSubmitAgain
    \/ SendNoToken
    \/ SendPosted
    \/ SendRefused
    \/ SendAccepted
    \/ SendReloaded

SpecManualTwice == Init /\ [][NextManualTwice]_vars

----------------------------------------------------------------------------
(* MySleepScreen: the health sync *)

\* initiateSyncSequence(): not on iOS an alert, on iOS the disclosure.
InitiateSync ==
    /\ IF platformOS # "ios"
       THEN /\ alert' = Alert("Not Supported",
                              "Health sync is only available on iOS.")
            /\ UNCHANGED healthDisclosureVisible
       ELSE /\ healthDisclosureVisible' = TRUE
            /\ UNCHANGED alert
    /\ UNCHANGED <<platformOS, syncing, syncRuns>>
    /\ UNCHANGED <<aggregatorVars, displayVars, posts, manualVars>>

\* The sync button of the header: disabled={syncing}.
InitiateSyncFromHeader ==
    /\ ~healthDisclosureVisible
    /\ ~fakeModalVisible
    /\ ~syncing
    /\ InitiateSync

\* "Sync Health" of the empty hero card.
InitiateSyncFromHero ==
    /\ ~healthDisclosureVisible
    /\ ~fakeModalVisible
    /\ heroCard.empty
    /\ InitiateSync

\* Cancel of the disclosure, or the back gesture.
CancelDisclosure ==
    /\ healthDisclosureVisible
    /\ healthDisclosureVisible' = FALSE
    /\ UNCHANGED <<platformOS, syncing, syncRuns, alert>>
    /\ UNCHANGED <<aggregatorVars, displayVars, posts, manualVars>>

\* "Agree & Sync": performHealthSync() up to its first await:
\* setHealthDisclosureVisible(false); setSyncing(true); initHealthKit() is
\* called and the 10 s timer is set.
PerformHealthSync ==
    /\ healthDisclosureVisible
    /\ Len(syncRuns) < MaxSyncRuns
    /\ healthDisclosureVisible' = FALSE
    /\ syncing' = TRUE
    /\ syncRuns' = Append(syncRuns, NewSyncRun)
    /\ UNCHANGED <<platformOS, alert>>
    /\ UNCHANGED <<aggregatorVars, displayVars, posts, manualVars>>

\* The same, where a second run is followed too.
PerformHealthSyncAgain ==
    /\ healthDisclosureVisible
    /\ Len(syncRuns) < MaxOverlappingRuns
    /\ healthDisclosureVisible' = FALSE
    /\ syncing' = TRUE
    /\ syncRuns' = Append(syncRuns, NewSyncRun)
    /\ UNCHANGED <<platformOS, alert>>
    /\ UNCHANGED <<aggregatorVars, displayVars, posts, manualVars>>

\* The catch and the finally of performHealthSync, for an error with a
\* message: Alert.alert("Sync Failed", msg); setSyncing(false).
SyncFailsStillSyncing(r, at, message) ==
    /\ alert' = SyncFailedAlert(message)
    /\ syncing' = syncing
    /\ syncRuns' = [syncRuns EXCEPT ![r] =
                       [@ EXCEPT !.step = "done", !.left = at,
                                 !.reported = SyncFailedAlert(message)]]

SyncFails(r, at, message) ==
    /\ alert' = SyncFailedAlert(message)
    /\ syncing' = FALSE
    /\ syncRuns' = [syncRuns EXCEPT ![r] =
                       [@ EXCEPT !.step = "done", !.left = at,
                                 !.reported = SyncFailedAlert(message)]]

\* initHealthKit resolves first: fetchLast7DaysSleep() is called.
InitResolved ==
    \E r \in DOMAIN syncRuns :
        /\ syncRuns[r].step = "init"
        /\ syncRuns' = [syncRuns EXCEPT ![r] = [@ EXCEPT !.step = "fetch"]]
        /\ UNCHANGED <<platformOS, healthDisclosureVisible, syncing, alert>>
        /\ UNCHANGED <<aggregatorVars, displayVars, posts, manualVars>>

\* initHealthKit rejects first.
InitRejected ==
    \E r \in DOMAIN syncRuns :
        /\ syncRuns[r].step = "init"
        /\ \E message \in InitErrors : SyncFails(r, "init", message)
        /\ UNCHANGED <<platformOS, healthDisclosureVisible>>
        /\ UNCHANGED <<aggregatorVars, displayVars, posts, manualVars>>

\* The timer fires while initHealthKit has not settled: the race rejects.
InitTimedOut ==
    \E r \in DOMAIN syncRuns :
        /\ syncRuns[r].step = "init"
        /\ syncRuns[r].timer = "armed"
        /\ alert' = SyncFailedAlert(TimedOutMessage)
        /\ syncing' = FALSE
        /\ syncRuns' = [syncRuns EXCEPT ![r] =
                           [@ EXCEPT !.step = "done", !.timer = "fired",
                                     !.left = "timeout",
                                     !.reported = SyncFailedAlert(TimedOutMessage)]]
        /\ UNCHANGED <<platformOS, healthDisclosureVisible>>
        /\ UNCHANGED <<aggregatorVars, displayVars, posts, manualVars>>

\* The timer fires after the race has settled: its reject is ignored.
TimerFiredLateAborts ==
    \E r \in DOMAIN syncRuns :
        /\ syncRuns[r].step # "init"
        /\ syncRuns[r].timer = "armed"
        /\ alert' = SyncFailedAlert(TimedOutMessage)
        /\ syncing' = FALSE
        /\ syncRuns' = [syncRuns EXCEPT ![r] =
                           [@ EXCEPT !.step = "done", !.timer = "fired",
                                     !.reported = SyncFailedAlert(TimedOutMessage)]]
        /\ UNCHANGED <<platformOS, healthDisclosureVisible>>
        /\ UNCHANGED <<aggregatorVars, displayVars, posts, manualVars>>

TimerFiredLate ==
    \E r \in DOMAIN syncRuns :
        /\ syncRuns[r].step # "init"
        /\ syncRuns[r].timer = "armed"
        /\ syncRuns' = [syncRuns EXCEPT ![r] = [@ EXCEPT !.timer = "fired"]]
        /\ UNCHANGED <<platformOS, healthDisclosureVisible, syncing, alert>>
        /\ UNCHANGED <<aggregatorVars, displayVars, posts, manualVars>>

\* getSleepSamples calls back with err: fetchLast7DaysSleep rejects with err
\* as it is.  With an err that has a message the catch alerts; with one
\* that has none, err.message.includes throws in the catch, no alert is
\* shown, and the finally still runs.
FetchRejected ==
    \E r \in DOMAIN syncRuns :
        /\ syncRuns[r].step = "fetch"
        /\ \/ SyncFails(r, "fetch", "Error getting sleep samples")
           \/ /\ syncing' = FALSE
              /\ syncRuns' = [syncRuns EXCEPT ![r] =
                                 [@ EXCEPT !.step = "done", !.left = "fetch"]]
              /\ UNCHANGED alert
        /\ UNCHANGED <<platformOS, healthDisclosureVisible>>
        /\ UNCHANGED <<aggregatorVars, displayVars, posts, manualVars>>

\* getSleepSamples calls back with results: fetchLast7DaysSleep resolves
\* with the aggregated nights.  With no night: the "No Data Found" alert,
\* setSyncing(false), return.  Otherwise the loop starts: apiPost is called
\* for the first night with total > 0, or, with none, load() is called.
FetchResolved ==
    \E r \in DOMAIN syncRuns :
        /\ syncRuns[r].step = "fetch"
        /\ \E healthData \in SyncHealthData :
            IF Len(healthData) = 0
            THEN /\ alert' = Alert("No Data Found",
                                   "We couldn't find any sleep records.")
                 /\ syncing' = FALSE
                 /\ syncRuns' = [syncRuns EXCEPT ![r] =
                        [@ EXCEPT !.step = "done", !.left = "empty",
                                  !.reported = Alert("No Data Found",
                                      "We couldn't find any sleep records.")]]
                 /\ UNCHANGED <<loading, loads, error>>
            ELSE IF NextUpload(healthData, 1) > Len(healthData)
            THEN /\ syncRuns' = [syncRuns EXCEPT ![r] =
                        [@ EXCEPT !.step = "reload", !.healthData = healthData,
                                  !.next = NextUpload(healthData, 1)]]
                 /\ loading' = TRUE
                 /\ UNCHANGED loads
                 /\ error' = Null
                 /\ UNCHANGED <<alert, syncing>>
            ELSE /\ syncRuns' = [syncRuns EXCEPT ![r] =
                        [@ EXCEPT !.step = "upload", !.healthData = healthData,
                                  !.next = NextUpload(healthData, 1)]]
                 /\ UNCHANGED <<alert, syncing, loading, loads, error>>
        /\ UNCHANGED <<platformOS, healthDisclosureVisible>>
        /\ UNCHANGED <<nights, heroCard, historyRows>>
        /\ UNCHANGED <<aggregatorVars, posts, manualVars>>

\* apiPost of the loop has no token: nothing is sent, the loop is left.
UploadNoToken ==
    \E r \in DOMAIN syncRuns :
        /\ syncRuns[r].step = "upload"
        /\ SyncFails(r, "upload", "No auth token")
        /\ UNCHANGED <<platformOS, healthDisclosureVisible>>
        /\ UNCHANGED <<aggregatorVars, displayVars, posts, manualVars>>

\* apiPost of the loop has the token: the request is handed to fetch, and
\* apiPost awaits the answer.
UploadPosted ==
    \E r \in DOMAIN syncRuns :
        /\ syncRuns[r].step = "upload"
        /\ posts' = Append(posts,
              NewPost("sync", r,
                      SyncUploadBody(syncRuns[r].healthData[syncRuns[r].next])))
        /\ syncRuns' = [syncRuns EXCEPT ![r] = [@ EXCEPT !.step = "answer"]]
        /\ UNCHANGED <<platformOS, healthDisclosureVisible, syncing, alert>>
        /\ UNCHANGED <<aggregatorVars, displayVars, manualVars>>

\* The request of a run that is not answered yet.
SyncPost(r) ==
    CHOOSE i \in DOMAIN posts :
        posts[i].by = "sync" /\ posts[i].run = r /\ posts[i].answer = "none"

\* fetch rejects, or the answer is not ok: apiPost throws, the loop is left.
UploadRefused ==
    \E r \in DOMAIN syncRuns :
        /\ syncRuns[r].step = "answer"
        /\ \E message \in PostErrors :
              /\ posts' = [posts EXCEPT ![SyncPost(r)] =
                              [@ EXCEPT !.answer = AnswerOf(message)]]
              /\ SyncFails(r, "upload", message)
        /\ UNCHANGED <<platformOS, healthDisclosureVisible>>
        /\ UNCHANGED <<aggregatorVars, displayVars, manualVars>>

\* The answer is ok: uploadedCount++, and the loop goes on to apiPost for
\* the next night with total > 0 or, after the last, to load(), up to its
\* await of apiGet.
UploadAccepted ==
    \E r \in DOMAIN syncRuns :
        /\ syncRuns[r].step = "answer"
        /\ posts' = [posts EXCEPT ![SyncPost(r)] = [@ EXCEPT !.answer = "ok"]]
        /\ LET following == NextUpload(syncRuns[r].healthData, syncRuns[r].next + 1)
           IN  IF following > Len(syncRuns[r].healthData)
               THEN /\ syncRuns' = [syncRuns EXCEPT ![r] =
                           [@ EXCEPT !.step = "reload", !.next = following,
                                     !.uploadedCount = @ + 1]]
                    /\ loading' = TRUE
                    /\ UNCHANGED loads
                    /\ error' = Null
               ELSE /\ syncRuns' = [syncRuns EXCEPT ![r] =
                           [@ EXCEPT !.step = "upload", !.next = following,
                                     !.uploadedCount = @ + 1]]
                    /\ UNCHANGED <<loading, loads, error>>
        /\ UNCHANGED <<platformOS, healthDisclosureVisible, syncing, alert>>
        /\ UNCHANGED <<nights, heroCard, historyRows>>
        /\ UNCHANGED <<aggregatorVars, manualVars>>

\* The nights the server has after the uploads of a run that it answered.
StoredBy(r) ==
    LET accepted == SelectSeq(posts, LAMBDA post :
                        post.by = "sync" /\ post.run = r /\ post.answer = "ok")
    IN  [i \in DOMAIN accepted |-> StoredNight(accepted[i].body)]

\* load() of the run ends, with nights or with an error; then the
\* "Sync Complete" alert with uploadedCount and healthData[0], and
\* setSyncing(false).
SyncReloaded ==
    \E r \in DOMAIN syncRuns :
        /\ syncRuns[r].step = "reload"
        /\ \/ /\ \E data \in {<<>>, StoredBy(r)} : SetNights(data)
              /\ UNCHANGED error
           \/ /\ \E message \in LoadErrors : error' = message
              /\ UNCHANGED <<nights, heroCard, historyRows>>
        /\ loading' = FALSE
        /\ UNCHANGED loads
        /\ alert' = SyncCompleteAlert(syncRuns[r].uploadedCount,
                                      syncRuns[r].healthData[1])
        /\ syncing' = FALSE
        /\ syncRuns' = [syncRuns EXCEPT ![r] =
               [@ EXCEPT !.step = "done", !.left = "complete",
                         !.reported = SyncCompleteAlert(syncRuns[r].uploadedCount,
                                                        syncRuns[r].healthData[1])]]
        /\ UNCHANGED <<platformOS, healthDisclosureVisible>>
        /\ UNCHANGED <<aggregatorVars, posts, manualVars>>

NextSync ==
    \/ InitiateSyncFromHeader
    \/ InitiateSyncFromHero
    \/ CancelDisclosure
    \/ PerformHealthSync
    \/ InitResolved
    \/ InitRejected
    \/ InitTimedOut
    \/ TimerFiredLate
    \/ FetchRejected
    \/ FetchResolved
    \/ UploadNoToken
    \/ UploadPosted
    \/ UploadRefused
    \/ UploadAccepted
    \/ SyncReloaded

\* The health sync is followed on both platforms.
InitAnyPlatform ==
    \E os \in {"ios", "android"} :
        /\ platformOS = os
        /\ promise = "none"
        /\ results = <<>>
        /\ sleepMinutesMap = <<>>
        /\ remMinutesMap = <<>>
        /\ deepMinutesMap = <<>>
        /\ coreMinutesMap = <<>>
        /\ resolved = <<>>
        /\ hasFirst = FALSE
        /\ firstBatch = <<>>
        /\ firstResolved = <<>>
        /\ otherSince = FALSE
        /\ calls = <<>>
        /\ heap = <<>>
        /\ nights = <<>>
        /\ loading = FALSE
        /\ loads = 0
        /\ error = Null
        /\ heroCard = renderHeroCard(<<>>)
        /\ historyRows = <<>>
        /\ posts = <<>>
        /\ fakeModalVisible = FALSE
        /\ fakeTotalHours = <<>>
        /\ fakeTotalMinutes = <<>>
        /\ fakeRemHours = <<>>
        /\ fakeRemMinutes = <<>>
        /\ fakeDeepHours = <<>>
        /\ fakeDeepMinutes = <<>>
        /\ fakeError = Null
        /\ manualDate = 0
        /\ sending = FALSE
        /\ sends = <<>>
        /\ healthDisclosureVisible = FALSE
        /\ syncing = FALSE
        /\ syncRuns = <<>>
        /\ alert = NoAlert

SpecSync == InitAnyPlatform /\ [][NextSync]_vars

\* What a run of performHealthSync waits for comes: initHealthKit settles or
\* the 10 s timer fires, the getSleepSamples callback is called, a request
\* of apiPost or apiGet is answered or fails.
SyncAwaitSettles ==
    \/ InitResolved
    \/ InitRejected
    \/ InitTimedOut
    \/ FetchRejected
    \/ FetchResolved
    \/ UploadNoToken
    \/ UploadPosted
    \/ UploadRefused
    \/ UploadAccepted
    \/ SyncReloaded

\* The health sync, followed over runs that can overlap.
NextSyncTwice ==
    \/ InitiateSyncFromHeader
    \/ InitiateSyncFromHero
    \/ CancelDisclosure
    \/ PerformHealthSyncAgain
    \/ InitResolved
    \/ InitRejected
    \/ InitTimedOut
    \/ TimerFiredLate
    \/ FetchRejected
    \/ FetchResolved
    \/ UploadNoToken
    \/ UploadPosted
    \/ UploadRefused
    \/ UploadAccepted
    \/ SyncReloaded

SpecSyncTwice == Init /\ [][NextSyncTwice]_vars

\* The health sync, with every await of a run settling in the end.
SpecSyncFair == SpecSync /\ WF_vars(SyncAwaitSettles)

----------------------------------------------------------------------------
(* Vocabulary of the properties *)

Settled == promise = "resolved"

\* The dates a map has an entry for, and the minutes it holds for a date.
KeysOf(m) == {m[i].key : i \in DOMAIN m}

MinutesAt(m, k) ==
    IF MapHas(m, k)
    THEN LET set == m[CHOOSE i \in DOMAIN m : m[i].key = k].set
         IN  {set[j] : j \in DOMAIN set}
    ELSE {}

\* How often a minute occurs in what a map holds for a date.
OccurrencesAt(m, k, minute) ==
    IF MapHas(m, k)
    THEN LET set == m[CHOOSE i \in DOMAIN m : m[i].key = k].set
         IN  Cardinality({j \in DOMAIN set : set[j] = minute})
    ELSE 0

\* The minutes the loop visits for a sample, the date the run groups the
\* sample under, and the sample's stage value as the loop compares it.
MinuteSetOf(sample) ==
    LET minutes == LoopMinutes(sample.startDate, sample.endDate)
    IN  {minutes[k] : k \in DOMAIN minutes}

DateOf(sample) == SessionDateKey(sample.endDate)

ValOf(sample) == toUpperCase(String(sample.value))

CountsAsSleep(sample) ==
    isRem(ValOf(sample)) \/ isDeep(ValOf(sample)) \/ isCore(ValOf(sample))
      \/ isGenericAsleep(ValOf(sample))

\* The minutes that the samples at the positions I of the batch visit.
MinutesOfSamples(I) == UNION {MinuteSetOf(results[i]) : i \in I}

NightsDated(date) == {i \in DOMAIN resolved : resolved[i].date = date}

AllMinutes == UNION {MinuteSetOf(sample) : sample \in Pool \cup RerunPool}

Day1 == AddDays(BaseDate, 1)
Day2 == AddDays(BaseDate, 2)

----------------------------------------------------------------------------
(* C1 *)

\* C1: every night the aggregator emits has
\* remMinutes + deepMinutes + coreMinutes <= totalMinutes, for every batch,
\* batches with overlapping samples of different stages included.
BucketContainment ==
    Settled =>
        \A i \in DOMAIN resolved :
            resolved[i].remMinutes + resolved[i].deepMinutes
              + resolved[i].coreMinutes <= resolved[i].totalMinutes

----------------------------------------------------------------------------
(* C2 *)

\* C2: samples of one stage and one assigned date that visit the same
\* minute count it once: each stage count of a date is the number of distinct
\* minutes that the samples of that stage and date visit, the total is the
\* number of distinct minutes that the asleep samples of the date visit, and
\* the emitted night reports these numbers.  Two DEEP samples over
\* [10:00, 10:05) give a deep count of 5.
SamplesOfDate(date, IsStage(_)) ==
    {i \in DOMAIN results :
        DateOf(results[i]) = date /\ IsStage(ValOf(results[i]))}

AsleepSamplesOfDate(date) ==
    {i \in DOMAIN results : DateOf(results[i]) = date /\ CountsAsSleep(results[i])}

DeepFiveMinutes == Sample(At(1, 10, 0, 0), At(1, 10, 5, 0), StrValue(Str_DEEP))

OverlapNotDoubleCounted ==
    Settled =>
        /\ \A date \in KeysOf(sleepMinutesMap) :
            /\ MapSizeOf(remMinutesMap, date)
                 = Cardinality(MinutesOfSamples(SamplesOfDate(date, isRem)))
            /\ MapSizeOf(deepMinutesMap, date)
                 = Cardinality(MinutesOfSamples(SamplesOfDate(date, isDeep)))
            /\ MapSizeOf(coreMinutesMap, date)
                 = Cardinality(MinutesOfSamples(SamplesOfDate(date, isCore)))
            /\ MapSizeOf(sleepMinutesMap, date)
                 = Cardinality(MinutesOfSamples(AsleepSamplesOfDate(date)))
        /\ \A i \in DOMAIN resolved :
            /\ resolved[i].totalMinutes = MapSizeOf(sleepMinutesMap, resolved[i].date)
            /\ resolved[i].remMinutes = MapSizeOf(remMinutesMap, resolved[i].date)
            /\ resolved[i].deepMinutes = MapSizeOf(deepMinutesMap, resolved[i].date)
            /\ resolved[i].coreMinutes = MapSizeOf(coreMinutesMap, resolved[i].date)
        /\ (results = <<DeepFiveMinutes, DeepFiveMinutes>> =>
                /\ MapSizeOf(deepMinutesMap, Day1) = 5
                /\ MapSizeOf(sleepMinutesMap, Day1) = 5)

\* Two DEEP samples of one date that overlap in [01:10, 01:20) have been
\* aggregated into one night of 30 deep minutes.
OverlapWitness ==
    /\ Settled
    /\ Len(results) = 2
    /\ isDeep(ValOf(results[1])) /\ isDeep(ValOf(results[2]))
    /\ results[1] # results[2]
    /\ DateOf(results[1]) = DateOf(results[2])
    /\ MinuteSetOf(results[1]) \cap MinuteSetOf(results[2]) # {}
    /\ Len(resolved) = 1
    /\ resolved[1].deepMinutes = 30
    /\ resolved[1].totalMinutes = 30

----------------------------------------------------------------------------
(* C3 *)

\* C3 as claimed: in the output of one run a minute counts at most once
\* towards totalMinutes and at most once towards its stage, also when the
\* samples that visit it are assigned to different dates: no minute is
\* counted in two emitted nights.
MinuteCountedOnceInOutput ==
    Settled =>
        \A minute \in AllMinutes :
            /\ Cardinality({i \in DOMAIN resolved :
                   minute \in MinutesAt(sleepMinutesMap, resolved[i].date)}) <= 1
            /\ \A i \in DOMAIN resolved :
                   OccurrencesAt(sleepMinutesMap, resolved[i].date, minute) <= 1

\* C3, amended: within one emitted night a minute counts at most once towards
\* totalMinutes and at most once towards each stage, however many samples of
\* that night's date visit it; a minute visited by asleep samples of two
\* dates is counted in the set of each of the two dates.
MinuteCountedOncePerNight ==
    Settled =>
        /\ \A date \in KeysOf(sleepMinutesMap), minute \in AllMinutes :
            /\ OccurrencesAt(sleepMinutesMap, date, minute) <= 1
            /\ OccurrencesAt(remMinutesMap, date, minute) <= 1
            /\ OccurrencesAt(deepMinutesMap, date, minute) <= 1
            /\ OccurrencesAt(coreMinutesMap, date, minute) <= 1
        /\ \A i \in DOMAIN resolved :
            /\ resolved[i].totalMinutes
                 = Cardinality(MinutesAt(sleepMinutesMap, resolved[i].date))
            /\ resolved[i].remMinutes
                 = Cardinality(MinutesAt(remMinutesMap, resolved[i].date))
            /\ resolved[i].deepMinutes
                 = Cardinality(MinutesAt(deepMinutesMap, resolved[i].date))
            /\ resolved[i].coreMinutes
                 = Cardinality(MinutesAt(coreMinutesMap, resolved[i].date))
        /\ \A i \in DOMAIN results :
            CountsAsSleep(results[i]) =>
                MinuteSetOf(results[i])
                  \subseteq MinutesAt(sleepMinutesMap, DateOf(results[i]))

\* Two REM samples that share the minutes of [13:40, 13:59), one ending at
\* 13:59 and one at 14:00, have been aggregated into two nights.
CrossDateOverlapWitness ==
    /\ Settled
    /\ Len(results) = 2
    /\ isRem(ValOf(results[1])) /\ isRem(ValOf(results[2]))
    /\ DateOf(results[1]) # DateOf(results[2])
    /\ MinuteSetOf(results[1]) \cap MinuteSetOf(results[2]) # {}
    /\ Len(resolved) = 2
    /\ MinutesAt(sleepMinutesMap, resolved[1].date)
         \cap MinutesAt(sleepMinutesMap, resolved[2].date) # {}

----------------------------------------------------------------------------
(* C4 *)

\* The claimed rule, from the end alone: the local calendar day of end, and
\* the calendar day after it when the local hour of end is 14 or more.
NightDateOfEnd(end) ==
    IF getHours(end) >= 14
    THEN NextDay(getLocalDateString(end))
    ELSE getLocalDateString(end)

EndsAt(h, m) == {i \in DOMAIN results : results[i].endDate = At(1, h, m, 0)}

\* C4: each sample is grouped under a date that depends on its end only:
\* the day after end's date when end's local hour is >= 14, end's own date
\* otherwise.  The dates of the run are exactly the dates the rule gives for
\* its samples, each date holds exactly the minutes of the asleep samples the
\* rule gives it, and ends at 08:00, 13:59, 14:00 and 23:30 of day D give
\* D, D, D+1 and D+1.  A sample that ends at 23:30 on the eve of
\* SpringForwardDate is grouped two days on, under the day after
\* SpringForwardDate.
DateFromEndOnly ==
    Settled =>
        /\ KeysOf(sleepMinutesMap)
             = {NightDateOfEnd(results[i].endDate) : i \in DOMAIN results}
        /\ \A date \in KeysOf(sleepMinutesMap) :
            MinutesAt(sleepMinutesMap, date)
              = MinutesOfSamples({i \in DOMAIN results :
                    /\ CountsAsSleep(results[i])
                    /\ NightDateOfEnd(results[i].endDate) = date})
        /\ \A i \in EndsAt(8, 0) \cup EndsAt(13, 59) :
            /\ Day1 \in KeysOf(sleepMinutesMap)
            /\ MinuteSetOf(results[i]) \subseteq MinutesAt(sleepMinutesMap, Day1)
            /\ Len(results) = 1 => KeysOf(sleepMinutesMap) = {<<2024, 2, 29>>}
        /\ \A i \in EndsAt(14, 0) \cup EndsAt(23, 30) :
            /\ Day2 \in KeysOf(sleepMinutesMap)
            /\ MinuteSetOf(results[i]) \subseteq MinutesAt(sleepMinutesMap, Day2)
            /\ Len(results) = 1 => KeysOf(sleepMinutesMap) = {<<2024, 3, 1>>}

----------------------------------------------------------------------------
(* C5 *)

CrossesMidnight == Sample(At(1, 23, 50, 0), At(2, 0, 10, 0), StrValue(Str_REM))
CrossesCutoff == Sample(At(1, 13, 50, 0), At(1, 14, 10, 0), NumValue(4))

\* C5: a sample is never split: all its minutes are in the sets of the one
\* date chosen from its end, and a minute of it is in the set of another
\* date only when another sample of that date visits it.  A sample from
\* 23:50 to 00:10 and one from 13:50 to 14:10 each give one night of 20
\* minutes, dated by the end.
SampleNotSplit ==
    Settled =>
        /\ \A i \in DOMAIN results :
            CountsAsSleep(results[i]) =>
                /\ MinuteSetOf(results[i])
                     \subseteq MinutesAt(sleepMinutesMap, DateOf(results[i]))
                /\ isRem(ValOf(results[i])) =>
                     MinuteSetOf(results[i])
                       \subseteq MinutesAt(remMinutesMap, DateOf(results[i]))
                /\ isDeep(ValOf(results[i])) =>
                     MinuteSetOf(results[i])
                       \subseteq MinutesAt(deepMinutesMap, DateOf(results[i]))
                /\ isCore(ValOf(results[i])) =>
                     MinuteSetOf(results[i])
                       \subseteq MinutesAt(coreMinutesMap, DateOf(results[i]))
                /\ \A other \in KeysOf(sleepMinutesMap) \ {DateOf(results[i])} :
                     MinuteSetOf(results[i]) \cap MinutesAt(sleepMinutesMap, other)
                       \subseteq MinutesOfSamples({j \in DOMAIN results :
                                     /\ j # i
                                     /\ DateOf(results[j]) = other
                                     /\ CountsAsSleep(results[j])})
        /\ (results = <<CrossesMidnight>> =>
                resolved = <<[date |-> <<2024, 3, 1>>, totalMinutes |-> 20,
                              remMinutes |-> 20, deepMinutes |-> 0,
                              coreMinutes |-> 0]>>)
        /\ (results = <<CrossesCutoff>> =>
                resolved = <<[date |-> <<2024, 3, 1>>, totalMinutes |-> 20,
                              remMinutes |-> 0, deepMinutes |-> 20,
                              coreMinutes |-> 0]>>)

\* The sample from 13:50 to 14:10 has been aggregated alone: one night.
NotSplitWitness ==
    /\ Settled
    /\ results = <<CrossesCutoff>>
    /\ Len(resolved) = 1
    /\ resolved[1].totalMinutes = 20

----------------------------------------------------------------------------
(* C6 *)

Core14 == Sample(At(1, 2, 0, 0), At(1, 2, 14, 0), StrValue(Str_CORE))
Core1 == Sample(At(1, 2, 14, 0), At(1, 2, 15, 0), NumValue(3))

\* C6: a date with fewer than 15 distinct asleep minutes (14, or none)
\* gives no record, a date with 15 or more gives one, and every emitted
\* night has totalMinutes >= 15.
ConfidenceFloor ==
    Settled =>
        /\ \A date \in KeysOf(sleepMinutesMap) :
            /\ Cardinality(MinutesAt(sleepMinutesMap, date)) < 15
                 => NightsDated(date) = {}
            /\ Cardinality(MinutesAt(sleepMinutesMap, date)) >= 15
                 => NightsDated(date) # {}
        /\ \A i \in DOMAIN resolved :
            /\ resolved[i].totalMinutes >= 15
            /\ resolved[i].date \in KeysOf(sleepMinutesMap)
            /\ AsleepSamplesOfDate(resolved[i].date) # {}
        /\ (results = <<Core14>> => resolved = <<>>)
        /\ (results = <<Core14, Core1>> =>
                Len(resolved) = 1 /\ resolved[1].totalMinutes = 15)

\* A date with exactly 14 distinct asleep minutes has been dropped.
FloorWitness ==
    /\ Settled
    /\ results = <<Core14>>
    /\ Cardinality(MinutesAt(sleepMinutesMap, Day1)) = 14
    /\ resolved = <<>>

----------------------------------------------------------------------------
(* C7 *)

\* Calendar order of two dates, field by field.
DateAfter(a, b) ==
    \/ a[1] > b[1]
    \/ a[1] = b[1] /\ a[2] > b[2]
    \/ a[1] = b[1] /\ a[2] = b[2] /\ a[3] > b[3]

\* C7: the returned list has one record for each surviving date and no
\* other, and is sorted by date strictly descending, for every batch in
\* every order.
SortedOnePerDate ==
    Settled =>
        /\ \A i, j \in DOMAIN resolved :
            i < j => DateAfter(resolved[i].date, resolved[j].date)
        /\ {resolved[i].date : i \in DOMAIN resolved}
             = {date \in KeysOf(sleepMinutesMap) :
                   MapSizeOf(sleepMinutesMap, date) >= MinNightMinutes}

\* A batch whose first sample belongs to the earlier date has given two
\* nights.
SortWitness ==
    /\ Settled
    /\ Len(results) = 2
    /\ DateAfter(DateOf(results[2]), DateOf(results[1]))
    /\ Len(resolved) = 2
    /\ resolved[1].date = DateOf(results[2])

----------------------------------------------------------------------------
(* C8 *)

RemSpellings ==
    {Str_REM, <<"A", "S", "L", "E", "E", "P", "_", "R", "E", "M">>, <<"5">>}
DeepSpellings ==
    {Str_DEEP, <<"A", "S", "L", "E", "E", "P", "_", "D", "E", "E", "P">>, <<"4">>}
CoreSpellings == {Str_CORE, Str_ASLEEP_CORE, <<"3">>}
GenericSpellings == {Str_ASLEEP, <<"1">>}
InBedSpellings == {Str_INBED, <<"I", "N", "_", "B", "E", "D">>, <<"0">>}
AwakeSpellings == {Str_AWAKE, <<"2">>}

SameLetter(a, b) ==
    \/ a = b
    \/ a \in DOMAIN UpperOf /\ UpperOf[a] = b
    \/ b \in DOMAIN UpperOf /\ UpperOf[b] = a

SpelledAs(value, spellings) ==
    /\ value.type # "undefined"
    /\ \E sp \in spellings :
        /\ Len(String(value)) = Len(sp)
        /\ \A k \in DOMAIN sp : SameLetter(String(value)[k], sp[k])

TableStage(sample) ==
    IF SpelledAs(sample.value, RemSpellings) THEN "REM"
    ELSE IF SpelledAs(sample.value, DeepSpellings) THEN "DEEP"
    ELSE IF SpelledAs(sample.value, CoreSpellings) THEN "CORE"
    ELSE IF SpelledAs(sample.value, GenericSpellings) THEN "ASLEEP"
    ELSE IF SpelledAs(sample.value, InBedSpellings) THEN "IN_BED"
    ELSE IF SpelledAs(sample.value, AwakeSpellings) THEN "AWAKE"
    ELSE "NONE"

TableSamples(date, stages) ==
    {i \in DOMAIN results :
        DateOf(results[i]) = date /\ TableStage(results[i]) \in stages}

\* The batch with every recognized stage value replaced by the stage's name.
CanonicalValue(sample) ==
    IF TableStage(sample) = "REM" THEN StrValue(Str_REM)
    ELSE IF TableStage(sample) = "DEEP" THEN StrValue(Str_DEEP)
    ELSE IF TableStage(sample) = "CORE" THEN StrValue(Str_CORE)
    ELSE IF TableStage(sample) = "ASLEEP" THEN StrValue(Str_ASLEEP)
    ELSE sample.value

Respelled(batch) ==
    [i \in DOMAIN batch |-> [batch[i] EXCEPT !.value = CanonicalValue(batch[i])]]

\* C8: the stage of a sample is read from the alias table without regard to
\* letter case: the REM, DEEP and CORE sets of a date hold exactly the
\* minutes of the samples spelled as that stage, the total set those of the
\* samples spelled as REM, DEEP, CORE or generic asleep, IN_BED and AWAKE
\* samples are in no set, and the run returns what it returns for the batch
\* with every stage spelled by its name.
StageAliasTable ==
    Settled =>
        /\ \A date \in KeysOf(sleepMinutesMap) :
            /\ MinutesAt(remMinutesMap, date)
                 = MinutesOfSamples(TableSamples(date, {"REM"}))
            /\ MinutesAt(deepMinutesMap, date)
                 = MinutesOfSamples(TableSamples(date, {"DEEP"}))
            /\ MinutesAt(coreMinutesMap, date)
                 = MinutesOfSamples(TableSamples(date, {"CORE"}))
            /\ MinutesAt(sleepMinutesMap, date)
                 = MinutesOfSamples(
                       TableSamples(date, {"REM", "DEEP", "CORE", "ASLEEP"}))
        /\ resolved = AggregateResult(Respelled(results))

\* A sample spelled "asleep_rem" has been aggregated into a night of 20 REM
\* minutes.
AliasWitness ==
    /\ Settled
    /\ Len(results) = 1
    /\ results[1].value = StrValue(Str_asleep_rem)
    /\ Len(resolved) = 1
    /\ resolved[1].remMinutes = 20
    /\ resolved[1].totalMinutes = 20

----------------------------------------------------------------------------
(* C9 *)

Malformed(sample) ==
    \/ sample.value.type = "undefined"
    \/ TableStage(sample) = "NONE"
    \/ sample.startDate = sample.endDate

WellFormedOnly(batch) == SelectSeq(batch, LAMBDA sample : ~Malformed(sample))

\* C9: a sample with an unrecognized stage, no stage or a zero-length
\* interval is skipped: the run settles, the sample is in no set, and the
\* run returns what it returns for the batch without the malformed samples.
MalformedSkipped ==
    Settled =>
        /\ resolved = AggregateResult(WellFormedOnly(results))
        /\ \A date \in KeysOf(sleepMinutesMap) :
            MinutesAt(sleepMinutesMap, date)
              = MinutesOfSamples({i \in AsleepSamplesOfDate(date) :
                                     ~Malformed(results[i])})

\* A batch of a malformed sample and a well-formed one has given the
\* well-formed sample's night.
MalformedWitness ==
    /\ Settled
    /\ Len(results) = 2
    /\ Malformed(results[1])
    /\ ~Malformed(results[2])
    /\ Len(resolved) = 1

----------------------------------------------------------------------------
(* C10 *)

\* The maps on the heap that the callbacks before the latest one made.
EarlierMaps == SubSeq(heap, 1, Len(heap) - Len(WithNewMaps(<<>>)))

\* C10: a run on the batch of the recorded first run returns what the first
\* run returned, whatever runs came between and whatever their maps, which
\* are still on the heap, hold.
RerunSameResult ==
    (Settled /\ hasFirst /\ results = firstBatch) => resolved = firstResolved

\* The first batch has been aggregated again, to a night, after a run on
\* another batch whose maps, unlike those of the latest run, hold two dates.
RerunWitness ==
    /\ Settled
    /\ otherSince
    /\ results = firstBatch
    /\ Len(resolved) > 0
    /\ Len(sleepMinutesMap) = 1
    /\ \E k \in DOMAIN EarlierMaps : Len(EarlierMaps[k]) = 2

----------------------------------------------------------------------------
(* C11 *)

MinuteAligned(sample) ==
    /\ sample.startDate % MsPerMinute = 0
    /\ sample.endDate % MsPerMinute = 0
    /\ sample.startDate < sample.endDate

Overlapping(a, b) == a.startDate < b.endDate /\ b.startDate < a.endDate

\* A non-empty batch of minute-aligned asleep samples of one date, no two of
\* which overlap.
AlignedDisjointOneDate ==
    /\ results # <<>>
    /\ \A i \in DOMAIN results :
        /\ MinuteAligned(results[i])
        /\ CountsAsSleep(results[i])
        /\ DateOf(results[i]) = DateOf(results[1])
    /\ \A i, j \in DOMAIN results :
        i # j => ~Overlapping(results[i], results[j])

LengthInMinutes(sample) == (sample.endDate - sample.startDate) \div MsPerMinute

\* The summed length of the samples of the batch whose stage value
\* satisfies IsStage.
RECURSIVE SummedLength(_, _)
SummedLength(IsStage(_), i) ==
    IF i = 0 THEN 0
    ELSE SummedLength(IsStage, i - 1)
           + (IF IsStage(ValOf(results[i])) THEN LengthInMinutes(results[i])
              ELSE 0)

AnyAsleepStage(val) ==
    isRem(val) \/ isDeep(val) \/ isCore(val) \/ isGenericAsleep(val)

ScenarioNight ==
    [date |-> DateOf(results[1]),
     totalMinutes |-> SummedLength(AnyAsleepStage, Len(results)),
     remMinutes |-> SummedLength(isRem, Len(results)),
     deepMinutes |-> SummedLength(isDeep, Len(results)),
     coreMinutes |-> SummedLength(isCore, Len(results))]

Deep0600 == Sample(At(2, 6, 0, 0), At(2, 6, 30, 0), StrValue(Str_DEEP))
Core0630 == Sample(At(2, 6, 30, 0), At(2, 7, 0, 0), StrValue(Str_CORE))

\* C11: for a batch of minute-aligned, pairwise non-overlapping asleep
\* samples that are all assigned to one date, the sets of that date hold as
\* many minutes as the summed lengths of the samples (per stage, and of all
\* of them for the total); no other date has a set; the run emits at most one
\* night, the night with these counts, and emits it when the summed length
\* reaches the floor of 15 minutes.  REM 23:50-00:10 into day 2, DEEP
\* 06:00-06:30 and CORE 06:30-07:00 of day 2 give one night of day 2 with
\* 20 REM, 30 deep, 30 core and 80 total minutes.
AlignedDisjointSums ==
    (Settled /\ AlignedDisjointOneDate) =>
        /\ KeysOf(sleepMinutesMap) = {ScenarioNight.date}
        /\ MapSizeOf(sleepMinutesMap, ScenarioNight.date) = ScenarioNight.totalMinutes
        /\ MapSizeOf(remMinutesMap, ScenarioNight.date) = ScenarioNight.remMinutes
        /\ MapSizeOf(deepMinutesMap, ScenarioNight.date) = ScenarioNight.deepMinutes
        /\ MapSizeOf(coreMinutesMap, ScenarioNight.date) = ScenarioNight.coreMinutes
        /\ resolved = IF ScenarioNight.totalMinutes >= MinNightMinutes
                      THEN <<ScenarioNight>> ELSE <<>>
        /\ (results = <<CrossesMidnight, Deep0600, Core0630>> =>
                resolved = <<[date |-> <<2024, 3, 1>>, totalMinutes |-> 80,
                              remMinutes |-> 20, deepMinutes |-> 30,
                              coreMinutes |-> 30]>>)

\* The three samples of the scenario have been aggregated into one night of
\* 80 minutes.
ScenarioWitness ==
    /\ Settled
    /\ AlignedDisjointOneDate
    /\ results = <<CrossesMidnight, Deep0600, Core0630>>
    /\ Len(resolved) = 1
    /\ resolved[1].totalMinutes = 80

----------------------------------------------------------------------------
(* Vocabulary of the screen properties *)

\* What the screen shows: for the hero card and for each history row, the
\* night it is rendered from and what is rendered.
ShownRows ==
    {[night |-> nights[i], shown |-> historyRows[i], place |-> "history"] :
        i \in DOMAIN historyRows}
      \cup (IF heroCard.empty THEN {}
            ELSE {[night |-> nights[1], shown |-> heroCard, place |-> "hero"]})

Abs(x) == IF x >= 0 THEN x ELSE 0 - x

\* k is an integer nearest to totalMinutes / 480 * 100.
NearestPercent(k, totalMinutes) ==
    2 * Abs(480 * k - 100 * totalMinutes) <= 480

----------------------------------------------------------------------------
(* C12 *)

\* C12: for every totalMinutes >= 0 the score shown for a night is the
\* integer nearest to totalMinutes / 480 * 100, capped at 100: 480 gives
\* 100, 360 gives 75, 0 gives 0, and every totalMinutes above 480 gives 100.
ScoreRoundedAndCapped ==
    \A row \in ShownRows :
        row.night.totalSleepMinutes >= 0 =>
            /\ \E k \in 0..((100 * row.night.totalSleepMinutes) \div 480 + 1) :
                /\ NearestPercent(k, row.night.totalSleepMinutes)
                /\ row.shown.score = IF k > 100 THEN 100 ELSE k
            /\ row.night.totalSleepMinutes = 480 => row.shown.score = 100
            /\ row.night.totalSleepMinutes = 360 => row.shown.score = 75
            /\ row.night.totalSleepMinutes = 0 => row.shown.score = 0
            /\ row.night.totalSleepMinutes > 480 => row.shown.score = 100

\* A night of 500 minutes is shown with the score 100.
ScoreCapWitness ==
    /\ ~loading
    /\ ~heroCard.empty
    /\ nights[1].totalSleepMinutes = 500
    /\ heroCard.score = 100

----------------------------------------------------------------------------
(* C13 *)

\* C13: the score shown for a night is an integer from 0 to 100 for every
\* totalMinutes, and a negative totalMinutes gives the score 0.
ScoreWithinZeroToHundred ==
    \A row \in ShownRows :
        /\ row.shown.score \in 0..100
        /\ row.night.totalSleepMinutes < 0 => row.shown.score = 0

----------------------------------------------------------------------------
(* C14 *)

MaxScore == 150
MaxNegativeScore == 50

TierLabels == {"DIAMOND", "PLATINUM", "GOLD", "SILVER", "BRONZE"}

\* The claimed table: the scores of each tier.
InTier(label, score) ==
    CASE label = "DIAMOND" -> score >= 100
      [] label = "PLATINUM" -> score \in 90..99
      [] label = "GOLD" -> score \in 75..89
      [] label = "SILVER" -> score \in 50..74
      [] label = "BRONZE" -> score < 50

TierOrder(label) ==
    CASE label = "BRONZE" -> 1
      [] label = "SILVER" -> 2
      [] label = "GOLD" -> 3
      [] label = "PLATINUM" -> 4
      [] label = "DIAMOND" -> 5

\* C14: the tier shown with a score is the tier of the table (100 and more
\* DIAMOND, 90..99 PLATINUM, 75..89 GOLD, 50..74 SILVER, less BRONZE), which
\* is the only tier of the table the score is in; a higher score, shown on
\* the screen or not, never has a lower tier, and a lower score never a
\* higher one.
TierStepFunction ==
    \A row \in ShownRows :
        /\ row.shown.rank = getRankTier(row.shown.score)
        /\ row.shown.rank.label \in TierLabels
        /\ InTier(row.shown.rank.label, row.shown.score)
        /\ \A label \in TierLabels \ {row.shown.rank.label} :
               ~InTier(label, row.shown.score)
        /\ \A score \in (0 - MaxNegativeScore)..MaxScore :
            /\ InTier(getRankTier(score).label, score)
            /\ score >= row.shown.score =>
                 TierOrder(getRankTier(score).label)
                   >= TierOrder(row.shown.rank.label)
            /\ score <= row.shown.score =>
                 TierOrder(getRankTier(score).label)
                   <= TierOrder(row.shown.rank.label)
        /\ \A other \in ShownRows :
            other.shown.score >= row.shown.score =>
                TierOrder(other.shown.rank.label)
                  >= TierOrder(row.shown.rank.label)

\* A night with the score 90, the lowest of its tier, is shown as PLATINUM.
TierBoundaryWitness ==
    /\ ~loading
    /\ ~heroCard.empty
    /\ heroCard.score = 90
    /\ heroCard.rank.label = "PLATINUM"

----------------------------------------------------------------------------
(* C15 *)

\* C15: the tier shown for a night of totalMinutes >= 0 agrees with the
\* durations of the Scoring System table: DIAMOND only from 480 minutes,
\* PLATINUM only from 432, GOLD only from 360, SILVER only from 240, and
\* every night under 240 minutes BRONZE.
TierMatchesScoringTable ==
    \A row \in ShownRows :
        row.night.totalSleepMinutes >= 0 =>
            /\ row.shown.rank.label = "DIAMOND"
                 => row.night.totalSleepMinutes >= 480
            /\ row.shown.rank.label = "PLATINUM"
                 => row.night.totalSleepMinutes >= 432
            /\ row.shown.rank.label = "GOLD"
                 => row.night.totalSleepMinutes >= 360
            /\ row.shown.rank.label = "SILVER"
                 => row.night.totalSleepMinutes >= 240
            /\ row.night.totalSleepMinutes < 240
                 => row.shown.rank.label = "BRONZE"

----------------------------------------------------------------------------
(* C16 *)

\* C16: the light-sleep minutes shown for a night, in the hero card and in
\* the history rows, are max(0, total - rem - deep), and so is the label:
\* never negative, also when rem + deep exceeds the total.
LightNeverNegative ==
    \A row \in ShownRows :
        LET rest == row.night.totalSleepMinutes - row.night.remSleepMinutes
                      - row.night.deepSleepMinutes
        IN  /\ row.shown.lightMinutes = IF rest > 0 THEN rest ELSE 0
            /\ row.shown.lightMinutes >= 0
            /\ row.shown.light.h >= 0
            /\ row.shown.light.m >= 0

----------------------------------------------------------------------------
(* C17 *)

\* What the texts of the fields stand for, read off the texts themselves: a
\* text is a duration when it is empty or a whole number.
TypedIsNumber(text) ==
    text \in {<<>>, <<"1">>, <<"-", "1">>, <<" ", "3", "e", "1">>}

TypedValue(text) ==
    CASE text = <<"1">> -> 1
      [] text = <<"-", "1">> -> -1
      [] text = <<" ", "3", "e", "1">> -> 30
      [] OTHER -> 0

TypedMinutes(h, m) == 60 * TypedValue(h) + TypedValue(m)

EntryTotal == TypedMinutes(fakeTotalHours, fakeTotalMinutes)
EntryRem == TypedMinutes(fakeRemHours, fakeRemMinutes)
EntryDeep == TypedMinutes(fakeDeepHours, fakeDeepMinutes)

EntryIsNumeric ==
    /\ TypedIsNumber(fakeTotalHours) /\ TypedIsNumber(fakeTotalMinutes)
    /\ TypedIsNumber(fakeRemHours) /\ TypedIsNumber(fakeRemMinutes)
    /\ TypedIsNumber(fakeDeepHours) /\ TypedIsNumber(fakeDeepMinutes)

EntryAcceptable ==
    EntryIsNumeric /\ EntryRem + EntryDeep <= EntryTotal /\ EntryTotal > 0

BodyWithinTotal(body) ==
    /\ body.nulls = {}
    /\ body.remSleepMinutes + body.deepSleepMinutes <= body.totalSleepMinutes
    /\ body.totalSleepMinutes > 0

\* C17: every manual entry that is sent to POST /sleep/upload, and every
\* one that sendFakeNight is about to send, has numbers with
\* rem + deep <= total and total > 0; a submit of an entry for which one of
\* the two fails (or that is not numeric) sets fakeError, starts no upload
\* and leaves the modal open, and a submit of any other entry starts the
\* upload of that entry.
ManualEntryValidated ==
    /\ [](/\ \A i \in DOMAIN posts :
               posts[i].by = "manual" => BodyWithinTotal(posts[i].body)
          /\ \A k \in DOMAIN sends : BodyWithinTotal(sends[k].body))
    /\ [][HandleFakeSubmit =>
            IF EntryAcceptable
            THEN /\ sends' = Append(sends,
                        NewSend(UploadBody(localISODate(manualDate), EntryTotal,
                                           EntryRem, EntryDeep)))
                 /\ fakeError' = Null
                 /\ ~fakeModalVisible'
            ELSE /\ fakeError' # Null
                 /\ fakeModalVisible'
                 /\ sends' = sends
                 /\ posts' = posts
                 /\ sending' = sending]_vars

----------------------------------------------------------------------------
(* Vocabulary of the sync properties *)

\* The requests a run has sent, oldest first.
PostsOf(r) == SelectSeq(posts, LAMBDA post : post.by = "sync" /\ post.run = r)

Answered(r) == {i \in DOMAIN PostsOf(r) : PostsOf(r)[i].answer = "ok"}

Refused(r) ==
    {i \in DOMAIN PostsOf(r) : PostsOf(r)[i].answer \in {"refused", "failed"}}

\* A request for the night has been sent by the run.
Attempted(r, night) ==
    \E i \in DOMAIN PostsOf(r) : PostsOf(r)[i].body.date = night.date

Ended(r) == syncRuns[r].step = "done"

----------------------------------------------------------------------------
(* C18 *)

\* C18: in a run that has ended and in which an upload was refused, a
\* request has been sent for every other night of the batch too, wherever
\* in the list the refused night is.
FailedUploadDoesNotBlock ==
    \A r \in DOMAIN syncRuns :
        (Ended(r) /\ Refused(r) # {}) =>
            \A i \in DOMAIN syncRuns[r].healthData :
                Attempted(r, syncRuns[r].healthData[i])

----------------------------------------------------------------------------
(* C19 *)

\* C19: a run that has ended after sending requests has reported a count
\* of uploaded nights, and the count is the number of its requests that
\* were answered, also when only some of them were.
ReportedCountAccurate ==
    \A r \in DOMAIN syncRuns :
        (Ended(r) /\ PostsOf(r) # <<>>) =>
            /\ syncRuns[r].reported.hasCount
            /\ syncRuns[r].reported.count = Cardinality(Answered(r))

----------------------------------------------------------------------------
(* C20 *)

\* The requests the claim expects of a run: one for each night, in order.
ExpectedBodies(r) ==
    [i \in DOMAIN syncRuns[r].healthData |->
        [date |-> syncRuns[r].healthData[i].date,
         totalSleepMinutes |-> syncRuns[r].healthData[i].totalMinutes,
         remSleepMinutes |-> syncRuns[r].healthData[i].remMinutes,
         deepSleepMinutes |-> syncRuns[r].healthData[i].deepMinutes,
         nulls |-> {}]]

BodiesOf(r) == [i \in DOMAIN PostsOf(r) |-> PostsOf(r)[i].body]

IsPrefix(a, b) == Len(a) <= Len(b) /\ a = SubSeq(b, 1, Len(a))

\* The run has got nights from the aggregator and no upload of it has
\* failed: it is uploading with every request so far answered, or reloading,
\* or it has ended with "Sync Complete".
Unfailed(r) ==
    /\ syncRuns[r].healthData # <<>>
    /\ Refused(r) = {}
    /\ Ended(r) => syncRuns[r].reported.title = "Sync Complete"

\* C20: a run sends no request before the aggregation has returned; in a
\* run with nights and without a failed upload the requests sent so far are
\* the first of the list "one request per aggregated night, in order, with
\* the night's date, totalMinutes, remMinutes and deepMinutes", and when the
\* uploads are over they are the whole list: one request per night and per
\* date, none left out, none repeated.
OnePostPerNight ==
    \A r \in DOMAIN syncRuns :
        /\ syncRuns[r].step \in {"init", "fetch"} => PostsOf(r) = <<>>
        /\ syncRuns[r].healthData = <<>> => PostsOf(r) = <<>>
        /\ Unfailed(r) =>
            /\ IsPrefix(BodiesOf(r), ExpectedBodies(r))
            /\ syncRuns[r].step = "upload" =>
                 /\ Len(PostsOf(r)) = syncRuns[r].next - 1
                 /\ Len(PostsOf(r)) < Len(syncRuns[r].healthData)
            /\ syncRuns[r].step = "answer" =>
                 Len(PostsOf(r)) = syncRuns[r].next
            /\ syncRuns[r].step \in {"reload", "done"} =>
                 /\ BodiesOf(r) = ExpectedBodies(r)
                 /\ \A i, j \in DOMAIN PostsOf(r) :
                        i # j => PostsOf(r)[i].body.date # PostsOf(r)[j].body.date

\* A run over three nights has ended with "Sync Complete" after three
\* answered requests.
ThreeNightsWitness ==
    \E r \in DOMAIN syncRuns :
        /\ Ended(r)
        /\ syncRuns[r].reported.title = "Sync Complete"
        /\ Len(syncRuns[r].healthData) = 3
        /\ Len(PostsOf(r)) = 3
        /\ Cardinality(Answered(r)) = 3

----------------------------------------------------------------------------
(* C21 *)

\* C21: a run that the device data source has failed (initHealthKit
\* rejected or timed out, or fetchLast7DaysSleep rejected) has reported
\* "Sync Failed"; a run whose fetch has returned no night has reported
\* "No Data Found"; neither has sent a request.
FailureAndNoDataReported ==
    \A r \in DOMAIN syncRuns :
        /\ syncRuns[r].left \in {"init", "timeout", "fetch"} =>
              /\ syncRuns[r].reported.title = "Sync Failed"
              /\ PostsOf(r) = <<>>
        /\ syncRuns[r].left = "empty" =>
              /\ syncRuns[r].reported.title = "No Data Found"
              /\ PostsOf(r) = <<>>

----------------------------------------------------------------------------
(* C22 *)

\* The places on the heap that the callback of a call writes to.
RefsOf(c) ==
    IF calls[c].step = "called" \/ calls[c].promise = "rejected" THEN {}
    ELSE {calls[c].maps.sleep, calls[c].maps.rem,
          calls[c].maps.deep, calls[c].maps.core}

\* C22: calls whose callbacks interleave write to no object in common; the
\* objects of each hold, after any passes of the others, what a run alone
\* over the samples it has passed would hold; and each resolves with what
\* a run alone over its batch resolves with.
CallsIndependent ==
    /\ \A c, d \in DOMAIN calls : c # d => RefsOf(c) \cap RefsOf(d) = {}
    /\ \A c \in DOMAIN calls :
        /\ calls[c].step = "forEach" =>
              MapsAt(heap, calls[c].maps) =
                  AggregateMaps(SubSeq(calls[c].results, 1, calls[c].i - 1))
        /\ calls[c].promise = "resolved" =>
              calls[c].resolved = AggregateResult(calls[c].results)

\* Two calls over different batches of two samples have resolved with
\* different nights, and the forEach of each was interrupted between its two
\* passes by a pass of the other.
InterleavedCallsWitness ==
    /\ Len(calls) = 2
    /\ \A c \in DOMAIN calls :
          /\ calls[c].promise = "resolved"
          /\ Len(calls[c].results) = 2
          /\ calls[c].interrupted
          /\ calls[c].resolved # <<>>
    /\ calls[1].results # calls[2].results
    /\ calls[1].resolved # calls[2].resolved

----------------------------------------------------------------------------
(* C23 *)

\* The one sample of a settled run with a batch of one sample that has
\* start < end, the minutes the run holds for it, and the first of them by
\* the claim.
OneSample == Settled /\ Len(results) = 1 /\ results[1].startDate < results[1].endDate

HeldMinutes == MinutesAt(sleepMinutesMap, DateOf(results[1]))

FloorOfStart == results[1].startDate \div MsPerMinute

\* The minute indices a sample can reach at all.
MinuteRange ==
    ((At(1, 1, 0, 0) \div MsPerMinute) - 1) ..
        ((At(1, 1, 0, 0) \div MsPerMinute) + ((59 + MaxSampleSeconds) \div 60) + 1)

\* C23, as stated: the minutes a sample contributes are
\* { m : floor(start / 60 s) <= m and m * 60 s < end }.
MinutesFromFloorToEnd ==
    OneSample =>
        HeldMinutes = {m \in MinuteRange :
                          /\ FloorOfStart <= m
                          /\ m * MsPerMinute < results[1].endDate}

\* C23, amended: the minutes a sample contributes are the minutes m from
\* floor(start / 60 s) on for which the instant as far into minute m as
\* start is into its minute is before end:
\* { m : floor(start / 60 s) <= m and start + (m - floor(start / 60 s)) * 60 s < end };
\* for a start on a minute boundary this is the set as stated.
MinutesFromStartToEnd ==
    OneSample =>
        /\ HeldMinutes = {m \in MinuteRange :
                            /\ FloorOfStart <= m
                            /\ results[1].startDate
                                 + (m - FloorOfStart) * MsPerMinute < results[1].endDate}
        /\ results[1].startDate % MsPerMinute = 0 =>
              HeldMinutes = {m \in MinuteRange :
                                /\ FloorOfStart <= m
                                /\ m * MsPerMinute < results[1].endDate}

\* The sample 01:00:30 to 01:01:10 has contributed minute 01:00 only, though
\* minute 01:01 starts before its end.
UnalignedStartWitness ==
    /\ OneSample
    /\ results[1].startDate = At(1, 1, 0, 30)
    /\ results[1].endDate = At(1, 1, 1, 10)
    /\ HeldMinutes = {At(1, 1, 0, 0) \div MsPerMinute}
    /\ (At(1, 1, 1, 0) \div MsPerMinute) * MsPerMinute < results[1].endDate

----------------------------------------------------------------------------
(* C24 *)

NinetySeconds(sample) == sample.endDate - sample.startDate = 90 * MsPerSecond

\* C24, as stated: a sample of 90 seconds contributes 1 or 2 minutes, and
\* which of the two depends on its alignment: a sample of 90 seconds with
\* another alignment contributes the other number.
NinetySecondsOneOrTwo ==
    (OneSample /\ NinetySeconds(results[1])) =>
        /\ Cardinality(HeldMinutes) \in {1, 2}
        /\ \E other \in AlignmentSamples :
              /\ NinetySeconds(other)
              /\ Cardinality(MinuteSetOf(other)) \in {1, 2}
              /\ Cardinality(MinuteSetOf(other)) # Cardinality(HeldMinutes)

\* C24, amended: a sample of 90 seconds contributes 2 minutes, the minute of
\* its start and the next, with every alignment.
NinetySecondsTwoMinutes ==
    (OneSample /\ NinetySeconds(results[1])) =>
        HeldMinutes = {FloorOfStart, FloorOfStart + 1}

\* The samples of 90 seconds from 01:00:00 have contributed two minutes.
NinetySecondsWitness ==
    /\ OneSample
    /\ NinetySeconds(results[1])
    /\ results[1].startDate = At(1, 1, 0, 0)
    /\ Cardinality(HeldMinutes) = 2

----------------------------------------------------------------------------
(* C25 *)

\* The orders a batch of n samples can be handed over in.
OrdersOf(n) ==
    {p \in [1..n -> 1..n] : \A i, j \in 1..n : i # j => p[i] # p[j]}

Permuted(batch, p) == [i \in DOMAIN batch |-> batch[p[i]]]

\* C25: what a run resolves with is what a run over the same samples in any
\* other order resolves with: the same nights, with the same counts, in the
\* same order.
OrderOfSamplesIrrelevant ==
    Settled =>
        \A p \in OrdersOf(Len(results)) :
            AggregateResult(Permuted(results, p)) = resolved

\* A run over two samples has resolved with two nights, the night of the
\* second sample before the night of the first.
ReorderedWitness ==
    /\ Settled
    /\ Len(results) = 2
    /\ Len(resolved) = 2
    /\ DateOf(results[1]) = resolved[2].date
    /\ DateOf(results[2]) = resolved[1].date
    /\ Permuted(results, <<2, 1>>) # results

----------------------------------------------------------------------------
(* C26 *)

\* C26: in every emitted night each of remMinutes, deepMinutes and
\* coreMinutes is at most totalMinutes, and every minute that the REM, the
\* deep or the core set of a date holds is in the date's total set.
StageWithinTotal ==
    Settled =>
        /\ \A i \in DOMAIN resolved :
              /\ resolved[i].remMinutes <= resolved[i].totalMinutes
              /\ resolved[i].deepMinutes <= resolved[i].totalMinutes
              /\ resolved[i].coreMinutes <= resolved[i].totalMinutes
        /\ \A k \in KeysOf(sleepMinutesMap) \cup KeysOf(remMinutesMap)
                    \cup KeysOf(deepMinutesMap) \cup KeysOf(coreMinutesMap) :
              /\ MinutesAt(remMinutesMap, k) \subseteq MinutesAt(sleepMinutesMap, k)
              /\ MinutesAt(deepMinutesMap, k) \subseteq MinutesAt(sleepMinutesMap, k)
              /\ MinutesAt(coreMinutesMap, k) \subseteq MinutesAt(sleepMinutesMap, k)

\* Samples of two stages over the same minutes have given a night whose
\* REM and deep minutes are each its total, and together more than it.
OverlappingStagesWitness ==
    /\ Settled
    /\ \E i \in DOMAIN resolved :
          /\ resolved[i].remMinutes = resolved[i].totalMinutes
          /\ resolved[i].deepMinutes = resolved[i].totalMinutes
          /\ resolved[i].remMinutes + resolved[i].deepMinutes
                > resolved[i].totalMinutes

----------------------------------------------------------------------------
(* C27 *)

\* C27: every run of performHealthSync that has started ends, and the step
\* that ends it leaves syncing false, whichever way the run leaves the try.
SyncingEventuallyFalse ==
    /\ \A n \in 1..MaxSyncRuns :
          (Len(syncRuns) >= n) ~> (Len(syncRuns) >= n /\ syncRuns[n].step = "done")
    /\ [][\A r \in DOMAIN syncRuns :
             (syncRuns[r].step # "done" /\ syncRuns'[r].step = "done") => ~syncing']_vars

\* A run whose uploads were answered and whose reload failed has ended, and
\* syncing is false.
ReloadFailedWitness ==
    \E r \in DOMAIN syncRuns :
        /\ syncRuns[r].step = "done"
        /\ syncRuns[r].left = "complete"
        /\ syncRuns[r].uploadedCount > 0
        /\ error \in LoadErrors
        /\ ~syncing

----------------------------------------------------------------------------
(* C28 *)

\* The runs of performHealthSync that have not ended.
RunsInProgress == {r \in DOMAIN syncRuns : syncRuns[r].step # "done"}

\* C28: at most one run of performHealthSync is in progress, and syncing is
\* true while a run is initialising, fetching or uploading.
AtMostOneSyncRun ==
    /\ Cardinality(RunsInProgress) <= 1
    /\ \A r \in DOMAIN syncRuns :
          syncRuns[r].step \in {"init", "fetch", "upload", "answer"} => syncing

----------------------------------------------------------------------------
(* C29 *)

\* In this step the 10 s timer of run r fires.
TimerFires(r) == syncRuns[r].timer = "armed" /\ syncRuns'[r].timer = "fired"

\* C29: when the timer of a run fires while initHealthKit has not settled,
\* the run ends there with "Sync Failed", having fetched nothing and sent
\* nothing, and it stays so; when the timer fires after initHealthKit has
\* settled, nothing of the run but the timer changes, and neither do the
\* requests sent, the alert, syncing or what the screen shows.
TimeoutOnlyBeforeInitSettles ==
    /\ [](\A r \in DOMAIN syncRuns :
            syncRuns[r].left = "timeout" =>
                /\ syncRuns[r].step = "done"
                /\ syncRuns[r].reported = SyncFailedAlert(TimedOutMessage)
                /\ syncRuns[r].healthData = <<>>
                /\ PostsOf(r) = <<>>)
    /\ [][\A r \in DOMAIN syncRuns :
             TimerFires(r) =>
                IF syncRuns[r].step = "init"
                THEN /\ syncRuns'[r].step = "done"
                     /\ syncRuns'[r].left = "timeout"
                     /\ alert' = SyncFailedAlert(TimedOutMessage)
                     /\ ~syncing'
                     /\ posts' = posts
                ELSE /\ syncRuns'[r] = [syncRuns[r] EXCEPT !.timer = "fired"]
                     /\ UNCHANGED <<posts, alert, syncing, displayVars>>]_vars

\* The timer of a run has fired while the run was uploading, after a
\* request of it was answered, and the run is uploading still.
LateTimerWitness ==
    \E r \in DOMAIN syncRuns :
        /\ syncRuns[r].timer = "fired"
        /\ syncRuns[r].step = "upload"
        /\ syncRuns[r].uploadedCount >= 1
        /\ syncing

----------------------------------------------------------------------------
(* C30 *)

\* The numbers of a body are written as numbers, with remSleepMinutes and
\* deepSleepMinutes at least 0 and totalSleepMinutes above 0.
NonNegativeBody(body) ==
    /\ body.nulls = {}
    /\ body.remSleepMinutes >= 0
    /\ body.deepSleepMinutes >= 0
    /\ body.totalSleepMinutes > 0

\* C30: every body that sendFakeNight hands to apiPost, and every request of
\* the manual log that was sent, has remSleepMinutes >= 0,
\* deepSleepMinutes >= 0 and totalSleepMinutes > 0.
ManualUploadNonNegative ==
    /\ \A k \in DOMAIN sends : NonNegativeBody(sends[k].body)
    /\ \A i \in DOMAIN posts :
          posts[i].by = "manual" => NonNegativeBody(posts[i].body)

====
